---- MODULE Spec2Model ----
(***************************************************************************)
(* Governance architecture: risk-tiered gates, approval consensus, RBAC,   *)
(* audit trail, governance engine pipeline and orchestrator routing.       *)
(* Confidence scores and thresholds are in percent (0.85 is 85).           *)
(***************************************************************************)
EXTENDS Integers, Sequences, FiniteSets, TLC

(* ------------------------------ bounds --------------------------------- *)

\* actions submitted to a RiskGateManager used on its own
MaxGateActions == 1
\* approve decisions recorded in one behaviour
MaxApprovals == 2
\* add_rule / update_rule calls in one behaviour
MaxRuleOps == 1
\* process_approval calls running concurrently in one behaviour
MaxCalls == 2
\* actions submitted to the GovernanceEngine in one behaviour
MaxActions == 1
\* RBAC administrative calls (activate, deactivate, grant, revoke) in one behaviour
MaxUserOps == 1
\* RBAC administrative calls in one behaviour of an RBACManager used on its own
MaxRbacOps == 2
\* log_action calls, and log_escalation calls, on an AuditTrailManager used on
\* its own
MaxLogs == 2

(* ------------------------- program constants --------------------------- *)

\* GovernanceConfig.confidence_threshold_default, the FallbackManager threshold
ConfidenceThresholdDefault == 85

(* ------------------------- enumerations -------------------------------- *)

None == "None"

Levels == {"LOW", "MEDIUM", "HIGH", "CRITICAL"}

AgentTypes ==
    {"ORCHESTRATOR", "INTAKE", "CARE_PLANNING", "MEDICATION", "DOCUMENTATION",
     "BILLING", "COMPLIANCE", "FAMILY_COMMUNICATION", "SCHEDULING"}

Roles ==
    {"SYSTEM_ADMIN", "CLINICAL_DIRECTOR", "NURSE_MANAGER", "CARE_COORDINATOR",
     "BILLING_STAFF", "FAMILY_PORTAL"}

critical_actions ==
    {"critical_biomarker_alert", "emergency_escalation",
     "life_threatening_condition", "code_blue_activation"}

high_risk_actions ==
    {"medication_change", "treatment_modification", "discharge_decision",
     "emergency_intervention", "biomarker_alert", "adverse_event_report"}

medium_risk_actions ==
    {"care_plan_update", "documentation_update", "assessment_completion",
     "referral_creation", "order_entry"}

\* action types submitted in the model: one of each tier
ActionTypes ==
    {"code_blue_activation", "medication_change", "care_plan_update", "submit_claim"}

\* confidence scores submitted in the model (percent)
Confidences == {50, 70, 85, 100}

\* ids of the people who decide approval requests in the gate-only model
Approvers == {"a1", "a2"}

(* ------------------------ RiskGateManager ------------------------------ *)

DefaultRules ==
    << [rule_id |-> 1, risk_level |-> "LOW", confidence_threshold |-> 70,
        requires_approval |-> FALSE, required_approvers |-> 1, enabled |-> TRUE],
       [rule_id |-> 2, risk_level |-> "MEDIUM", confidence_threshold |-> 85,
        requires_approval |-> FALSE, required_approvers |-> 1, enabled |-> TRUE],
       [rule_id |-> 3, risk_level |-> "HIGH", confidence_threshold |-> 90,
        requires_approval |-> TRUE, required_approvers |-> 1, enabled |-> TRUE],
       [rule_id |-> 4, risk_level |-> "CRITICAL", confidence_threshold |-> 95,
        requires_approval |-> TRUE, required_approvers |-> 2, enabled |-> TRUE] >>

ClassifyRiskLowFirst(action_type) ==
    IF action_type \in medium_risk_actions THEN "MEDIUM"
    ELSE IF action_type \in high_risk_actions THEN "MEDIUM"
    ELSE IF action_type \in critical_actions THEN "HIGH"
    ELSE "LOW"

ClassifyRisk(action_type) ==
    IF action_type \in critical_actions THEN "CRITICAL"
    ELSE IF action_type \in high_risk_actions THEN "HIGH"
    ELSE IF action_type \in medium_risk_actions THEN "MEDIUM"
    ELSE "LOW"

\* first rule, in insertion order, of the risk level; the first rule if none
GetRuleForRiskLevel(rs, risk_level) ==
    LET hits == {i \in 1..Len(rs) : rs[i].risk_level = risk_level}
    IN  IF hits = {} THEN rs[1]
        ELSE rs[CHOOSE i \in hits : \A j \in hits : i <= j]

PriorityAlwaysHigh(risk_level) == "HIGH"

Priority(risk_level) == IF risk_level = "CRITICAL" THEN "URGENT" ELSE "HIGH"

\* the request _create_approval_request stores for the action under the rule
CreateApprovalRequest(pa, action, rule) ==
    [request_id         |-> Len(pa) + 1,
     action_id          |-> action.action_id,
     agent_type         |-> action.agent_type,
     action_type        |-> action.action_type,
     patient_id         |-> action.patient_id,
     risk_level         |-> action.risk_level,
     confidence_score   |-> action.confidence_score,
     required_approvers |-> rule.required_approvers,
     current_approvals  |-> 0,
     approved_by        |-> << >>,
     rejected_by        |-> None,
     status             |-> "PENDING",
     priority           |-> Priority(action.risk_level)]

GateBlocked(pa, action, rule) ==
    [can_proceed |-> FALSE,
     request     |-> CreateApprovalRequest(pa, action, rule),
     pa          |-> Append(pa, CreateApprovalRequest(pa, action, rule)),
     status      |-> "AWAITING_APPROVAL"]

GateOpen(pa) ==
    [can_proceed |-> TRUE, request |-> None, pa |-> pa, status |-> "APPROVED"]

EvaluateGateNoTierCheck(rs, pa, action) ==
    LET rule == GetRuleForRiskLevel(rs, action.risk_level)
    IN  IF action.confidence_score < rule.confidence_threshold
        THEN GateBlocked(pa, action, rule)
        ELSE IF rule.requires_approval THEN GateBlocked(pa, action, rule)
        ELSE GateOpen(pa)

EvaluateGateStrictThreshold(rs, pa, action) ==
    LET rule == GetRuleForRiskLevel(rs, action.risk_level)
    IN  IF action.confidence_score <= rule.confidence_threshold
        THEN GateBlocked(pa, action, rule)
        ELSE IF rule.requires_approval THEN GateBlocked(pa, action, rule)
        ELSE IF action.risk_level \in {"LOW", "MEDIUM"} THEN GateOpen(pa)
        ELSE GateBlocked(pa, action, rule)

\* evaluate_gate: the decision, the request created (or None), the new
\* pending_approvals and the status left on the action
EvaluateGate(rs, pa, action) ==
    LET rule == GetRuleForRiskLevel(rs, action.risk_level)
    IN  IF action.confidence_score < rule.confidence_threshold
        THEN GateBlocked(pa, action, rule)
        ELSE IF rule.requires_approval THEN GateBlocked(pa, action, rule)
        ELSE IF action.risk_level = "LOW" THEN GateOpen(pa)
        ELSE IF action.risk_level = "MEDIUM" THEN GateOpen(pa)
        ELSE GateBlocked(pa, action, rule)

ThresholdReachedOffByOne(r) == r.current_approvals > r.required_approvers

\* the test made after an approval is counted: the request is fully approved
ThresholdReached(r) == r.current_approvals >= r.required_approvers

\* the approved branch of RiskGateManager.process_approval
ApproveRequest(r, approver_id) ==
    LET counted == [r EXCEPT !.approved_by = Append(@, approver_id),
                             !.current_approvals = @ + 1]
    IN  IF ThresholdReached(counted) THEN [counted EXCEPT !.status = "APPROVED"]
        ELSE counted

\* the rejected branch of RiskGateManager.process_approval
RejectRequest(r, approver_id) ==
    [r EXCEPT !.status = "REJECTED", !.rejected_by = approver_id]

\* RiskGateManager.process_approval: the return value and the new store
RiskProcessApproval(pa, request_id, approver_id, approved) ==
    IF request_id \notin 1..Len(pa) THEN [ret |-> FALSE, pa |-> pa]
    ELSE IF approved
    THEN [ret |-> ThresholdReached(ApproveRequest(pa[request_id], approver_id)),
          pa  |-> [pa EXCEPT ![request_id] = ApproveRequest(@, approver_id)]]
    ELSE [ret |-> FALSE,
          pa  |-> [pa EXCEPT ![request_id] = RejectRequest(@, approver_id)]]

(* ----------------------------- RBACManager ------------------------------ *)

\* the agent types a role has a permission record for
RoleAgents(role) ==
    IF role = "SYSTEM_ADMIN" THEN AgentTypes
    ELSE IF role = "CLINICAL_DIRECTOR"
    THEN {"ORCHESTRATOR", "INTAKE", "CARE_PLANNING", "MEDICATION", "DOCUMENTATION",
          "COMPLIANCE", "FAMILY_COMMUNICATION", "SCHEDULING"}
    ELSE IF role = "NURSE_MANAGER"
    THEN {"INTAKE", "CARE_PLANNING", "DOCUMENTATION", "FAMILY_COMMUNICATION",
          "SCHEDULING"}
    ELSE IF role = "CARE_COORDINATOR" THEN {"FAMILY_COMMUNICATION", "SCHEDULING"}
    ELSE IF role = "BILLING_STAFF" THEN {"BILLING"}
    ELSE IF role = "FAMILY_PORTAL" THEN {"FAMILY_COMMUNICATION", "SCHEDULING"}
    ELSE {}

RoleReadAccess(role) == role \in Roles

RoleWriteAccess(role) ==
    role \in {"SYSTEM_ADMIN", "CLINICAL_DIRECTOR", "NURSE_MANAGER",
              "CARE_COORDINATOR", "BILLING_STAFF"}

RoleApproveAccess(role) == role \in {"SYSTEM_ADMIN", "CLINICAL_DIRECTOR"}

RoleAllowedActions(role) ==
    IF role \in {"SYSTEM_ADMIN", "CLINICAL_DIRECTOR"} THEN {"*"}
    ELSE IF role = "NURSE_MANAGER"
    THEN {"view_patient", "update_care_plan", "create_documentation",
          "send_communication", "schedule_appointment"}
    ELSE IF role = "CARE_COORDINATOR"
    THEN {"view_schedule", "create_appointment", "send_reminder", "contact_family",
          "update_contact_info"}
    ELSE IF role = "BILLING_STAFF"
    THEN {"view_claims", "submit_claim", "process_payment", "generate_invoice",
          "view_documentation"}
    ELSE IF role = "FAMILY_PORTAL"
    THEN {"view_appointments", "view_care_updates", "send_message"}
    ELSE {}

\* the members of a list
Range(seq) == {seq[i] : i \in 1..Len(seq)}

Denied(reason) == [allowed |-> FALSE, reason |-> reason]

Granted(reason) == [allowed |-> TRUE, reason |-> reason]

CheckPermissionNoActiveCheck(us, user_id, agent_type, action, require_write, require_approve) ==
    IF user_id \notin DOMAIN us THEN Denied("User not found")
    ELSE IF action \in Range(us[user_id].permissions_override)
    THEN Granted("Permission granted via override")
    ELSE IF agent_type \notin RoleAgents(us[user_id].role)
    THEN Denied("No permission defined")
    ELSE IF require_write /\ ~RoleWriteAccess(us[user_id].role)
    THEN Denied("Write access required but not granted")
    ELSE IF require_approve /\ ~RoleApproveAccess(us[user_id].role)
    THEN Denied("Approval access required but not granted")
    ELSE IF "*" \notin RoleAllowedActions(us[user_id].role)
            /\ action \notin RoleAllowedActions(us[user_id].role)
    THEN Denied("Action not in allowed actions")
    ELSE Granted("Permission granted")

CheckPermissionIgnoresActions(us, user_id, agent_type, action, require_write, require_approve) ==
    IF user_id \notin DOMAIN us THEN Denied("User not found")
    ELSE IF ~us[user_id].is_active THEN Denied("User account is inactive")
    ELSE IF action \in Range(us[user_id].permissions_override)
    THEN Granted("Permission granted via override")
    ELSE IF agent_type \notin RoleAgents(us[user_id].role)
    THEN Denied("No permission defined")
    ELSE IF require_write /\ ~RoleWriteAccess(us[user_id].role)
    THEN Denied("Write access required but not granted")
    ELSE IF require_approve /\ ~RoleApproveAccess(us[user_id].role)
    THEN Denied("Approval access required but not granted")
    ELSE Granted("Permission granted")

CheckPermission(us, user_id, agent_type, action, require_write, require_approve) ==
    IF user_id \notin DOMAIN us THEN Denied("User not found")
    ELSE IF ~us[user_id].is_active THEN Denied("User account is inactive")
    ELSE IF action \in Range(us[user_id].permissions_override)
    THEN Granted("Permission granted via override")
    ELSE IF agent_type \notin RoleAgents(us[user_id].role)
    THEN Denied("No permission defined")
    ELSE IF ~RoleReadAccess(us[user_id].role)
    THEN Denied("No read access to this agent")
    ELSE IF require_write /\ ~RoleWriteAccess(us[user_id].role)
    THEN Denied("Write access required but not granted")
    ELSE IF require_approve /\ ~RoleApproveAccess(us[user_id].role)
    THEN Denied("Approval access required but not granted")
    ELSE IF "*" \notin RoleAllowedActions(us[user_id].role)
            /\ action \notin RoleAllowedActions(us[user_id].role)
    THEN Denied("Action not in allowed actions")
    ELSE Granted("Permission granted")

CheckPatientAccess(us, user_id, access_type) ==
    IF user_id \notin DOMAIN us THEN Denied("User not found")
    ELSE IF ~us[user_id].is_active THEN Denied("User account is inactive")
    ELSE IF us[user_id].role = "SYSTEM_ADMIN" THEN Granted("Admin access")
    ELSE IF us[user_id].role = "CLINICAL_DIRECTOR"
    THEN Granted("Clinical director access")
    ELSE IF us[user_id].role \in {"NURSE_MANAGER", "CARE_COORDINATOR"}
    THEN Granted("Care team access")
    ELSE IF us[user_id].role = "BILLING_STAFF"
    THEN IF access_type \in {"VIEW", "BILLING"}
         THEN Granted("Billing access for claims processing")
         ELSE Denied("Billing staff limited to billing-related access")
    ELSE IF us[user_id].role = "FAMILY_PORTAL"
    THEN Granted("Family portal access (limited view)")
    ELSE Denied("Access denied")

\* grant_permission_override: the return value and the new user table
GrantPermissionOverride(us, user_id, action, granted_by) ==
    IF user_id \notin DOMAIN us \/ granted_by \notin DOMAIN us
    THEN [ret |-> FALSE, users |-> us]
    ELSE IF us[granted_by].role \notin {"SYSTEM_ADMIN", "CLINICAL_DIRECTOR"}
    THEN [ret |-> FALSE, users |-> us]
    ELSE IF action \notin Range(us[user_id].permissions_override)
    THEN [ret |-> TRUE,
          users |-> [us EXCEPT ![user_id].permissions_override = Append(@, action)]]
    ELSE [ret |-> TRUE, users |-> us]

\* the list without the first occurrence of the element
RECURSIVE RemoveFirst(_, _)
RemoveFirst(seq, x) ==
    IF seq = << >> THEN << >>
    ELSE IF Head(seq) = x THEN Tail(seq)
    ELSE <<Head(seq)>> \o RemoveFirst(Tail(seq), x)

RevokePermissionOverride(us, user_id, action) ==
    IF user_id \notin DOMAIN us THEN [ret |-> FALSE, users |-> us]
    ELSE IF action \in Range(us[user_id].permissions_override)
    THEN [ret |-> TRUE,
          users |-> [us EXCEPT ![user_id].permissions_override = RemoveFirst(@, action)]]
    ELSE [ret |-> FALSE, users |-> us]

SetActive(us, user_id, flag) ==
    IF user_id \notin DOMAIN us THEN [ret |-> FALSE, users |-> us]
    ELSE [ret |-> TRUE, users |-> [us EXCEPT ![user_id].is_active = flag]]

(* -------------------------- AuditTrailManager -------------------------- *)

\* log_action: the entry appended for the action as it is at the call
LogAction(logs, action, session_id, user_id) ==
    Append(logs,
       [log_id           |-> Len(logs) + 1,
        action_id        |-> action.action_id,
        agent_type       |-> action.agent_type,
        action_type      |-> action.action_type,
        patient_id       |-> action.patient_id,
        confidence_score |-> action.confidence_score,
        risk_level       |-> action.risk_level,
        status           |-> action.status,
        outcome          |-> "",
        session_id       |-> session_id,
        user_id          |-> user_id,
        human_override   |-> FALSE,
        override_by      |-> None])

LogAccess(alogs, user_id, user_role, patient_id, resource_type, success, reason) ==
    Append(alogs,
       [access_id     |-> Len(alogs) + 1,
        user_id       |-> user_id,
        user_role     |-> user_role,
        patient_id    |-> patient_id,
        resource_type |-> resource_type,
        action        |-> "WRITE",
        success       |-> success,
        reason        |-> reason])

LogEscalation(elogs, action, reason) ==
    Append(elogs,
       [escalation_id     |-> Len(elogs) + 1,
        source_agent      |-> action.agent_type,
        action_id         |-> action.action_id,
        escalation_reason |-> reason,
        confidence_score  |-> action.confidence_score,
        risk_level        |-> action.risk_level,
        resolved          |-> FALSE,
        resolution_action |-> None,
        resolved_by       |-> None])

IndexAppendReplaces(ix, key, log_id) ==
    IF key = None THEN ix
    ELSE [k \in DOMAIN ix \cup {key} |-> IF k # key THEN ix[k] ELSE <<log_id>>]

\* list.append on a defaultdict(list) index; nothing for a key that is
\* None (an action without patient, a call without session)
IndexAppend(ix, key, log_id) ==
    IF key = None THEN ix
    ELSE [k \in DOMAIN ix \cup {key} |->
             IF k # key THEN ix[k]
             ELSE IF k \in DOMAIN ix THEN Append(ix[k], log_id) ELSE <<log_id>>]

\* the index after the log_action call, if any, that took the store from
\* logs to logged; field is the entry field the index is keyed by
IndexLogged(ix, logs, logged, field) ==
    IF Len(logged) = Len(logs) THEN ix
    ELSE IndexAppend(ix, logged[Len(logged)][field], logged[Len(logged)].log_id)

\* the id is a key of the store
Found(store, id) == id \in 1..Len(store)

UpdateLogOutcomeCreates(logs, log_id, outcome, status) ==
    IF ~Found(logs, log_id)
    THEN Append(logs, [log_id |-> log_id, outcome |-> outcome, status |-> status])
    ELSE [logs EXCEPT ![log_id].outcome = outcome, ![log_id].status = status]

UpdateLogOutcome(logs, log_id, outcome, status) ==
    IF ~Found(logs, log_id) THEN logs
    ELSE [logs EXCEPT ![log_id].outcome = outcome, ![log_id].status = status]

RecordHumanOverrideRewrites(logs, log_id, override_by) ==
    IF ~Found(logs, log_id) THEN logs
    ELSE [logs EXCEPT ![log_id].human_override = TRUE,
                      ![log_id].override_by = override_by,
                      ![log_id].status = "OVERRIDDEN"]

RecordHumanOverride(logs, log_id, override_by) ==
    IF ~Found(logs, log_id) THEN logs
    ELSE [logs EXCEPT ![log_id].human_override = TRUE,
                      ![log_id].override_by = override_by]

ResolveEscalation(elogs, escalation_id, resolved_by, resolution_action) ==
    IF ~Found(elogs, escalation_id) THEN elogs
    ELSE [elogs EXCEPT ![escalation_id].resolved = TRUE,
                       ![escalation_id].resolution_action = resolution_action,
                       ![escalation_id].resolved_by = resolved_by]

\* get_pending_escalations: the unresolved logs, in insertion order
GetPendingEscalations(elogs) == SelectSeq(elogs, LAMBDA log : ~log.resolved)

(* ---------------------------- FallbackManager -------------------------- *)

\* evaluate_action: escalate on a confidence below the configured threshold
\* or on an explicit safety-concern marker
FallbackEvaluateAction(action, threshold) ==
    IF action.confidence_score < threshold
    THEN [should_escalate |-> TRUE, trigger |-> "LOW_CONFIDENCE",
          reason |-> "Confidence below threshold"]
    ELSE IF action.safety_concern
    THEN [should_escalate |-> TRUE, trigger |-> "SAFETY_CONCERN",
          reason |-> "Safety concern"]
    ELSE [should_escalate |-> FALSE, trigger |-> None, reason |-> None]

\* trigger_escalation: one escalation record per call
TriggerEscalation(escs, action, trigger, reason) ==
    Append(escs,
       [escalation_id |-> Len(escs) + 1,
        action_id     |-> action.action_id,
        trigger       |-> trigger,
        reason        |-> reason,
        resolved      |-> FALSE,
        resolved_by   |-> None])

(* --------------------------- GovernanceEngine -------------------------- *)

HandlerKey(action) == <<action.agent_type, action.action_type>>

\* _execute_action: h is what the registered handler does when it is called
ExecuteAction(hs, action, h) ==
    IF HandlerKey(action) \in hs
    THEN IF h = "ok" THEN [success |-> TRUE, error |-> None, handler |-> TRUE]
         ELSE IF h = "fail"
         THEN [success |-> FALSE, error |-> "handler_error", handler |-> TRUE]
         ELSE [success |-> FALSE, error |-> "exception", handler |-> TRUE]
    ELSE [success |-> TRUE, error |-> None, handler |-> FALSE]

RecordExec(execs, action, via, result) ==
    Append(execs, [action_id |-> action.action_id, via |-> via,
                   handler |-> result.handler, success |-> result.success,
                   error |-> result.error])

ActionResponse(success, action, user_id, escalation_required, error) ==
    [op |-> "process_action", user_id |-> user_id, success |-> success,
     confidence_score |-> action.confidence_score,
     action_id |-> action.action_id, agent_type |-> action.agent_type,
     action_type |-> action.action_type, patient_id |-> action.patient_id,
     status |-> action.status, risk_level |-> action.risk_level,
     escalation_required |-> escalation_required, error |-> error]

\* process_action, the branch taken when the permission check denies
PermissionDenied(st, action, user_id) ==
    LET rejected == [action EXCEPT !.status = "REJECTED"]
    IN  [st EXCEPT !.audit_logs = LogAction(@, rejected, None, user_id),
                   !.resp = ActionResponse(FALSE, rejected, user_id, FALSE,
                                           "Permission denied")]

\* process_action, the branch taken when the patient-access check denies
PatientAccessDenied(st, action, user_id, reason) ==
    LET rejected == [action EXCEPT !.status = "REJECTED"]
        role == IF user_id \in DOMAIN st.users THEN st.users[user_id].role ELSE "UNKNOWN"
    IN  [st EXCEPT !.access_logs = LogAccess(@, user_id, role, action.patient_id,
                                             action.action_type, FALSE, reason),
                   !.resp = ActionResponse(FALSE, rejected, user_id, FALSE,
                                           "Patient access denied")]

EscalatedNoAudit(st, action, user_id, fb) ==
    LET escalated == [action EXCEPT !.status = "ESCALATED"]
    IN  [st EXCEPT !.escalations = TriggerEscalation(@, action, fb.trigger, fb.reason),
                   !.escalation_logs = LogEscalation(@, action, fb.reason),
                   !.resp = ActionResponse(FALSE, escalated, user_id, TRUE, None)]

\* process_action, the branch taken when the fallback evaluation escalates
Escalated(st, action, user_id, fb) ==
    LET escalated == [action EXCEPT !.status = "ESCALATED"]
    IN  [st EXCEPT !.escalations = TriggerEscalation(@, action, fb.trigger, fb.reason),
                   !.escalation_logs = LogEscalation(@, action, fb.reason),
                   !.audit_logs = LogAction(@, escalated, None, user_id),
                   !.resp = ActionResponse(FALSE, escalated, user_id, TRUE, None)]

\* lines 181-185 and 191-195: every hook is called, in registration order,
\* inside its own try / except; a hook is what it does when called, "ok"
\* or "raise"
RunHooksStopAtRaise(call, hooks) ==
    LET Quiet(n) == \A i \in 1..n : hooks[i] # "raise"
        last == IF Quiet(Len(hooks)) THEN Len(hooks)
                ELSE CHOOSE n \in 1..Len(hooks) : hooks[n] = "raise" /\ Quiet(n - 1)
    IN  [i \in 1..last |-> [call |-> call, hook |-> i, raised |-> hooks[i] = "raise"]]

RunHooks(call, hooks) ==
    [i \in 1..Len(hooks) |-> [call |-> call, hook |-> i, raised |-> hooks[i] = "raise"]]

\* lines 181-210: the calls process_action makes for an action that passed
\* the gate, in order
PipelineEvents(pre_hooks, post_hooks) ==
    RunHooks("pre_hook", pre_hooks)
       \o <<[call |-> "execute_action", hook |-> 0, raised |-> FALSE]>>
       \o RunHooks("post_hook", post_hooks)
       \o <<[call |-> "update_log_outcome", hook |-> 0, raised |-> FALSE]>>

GatedLosesError(st, action, user_id, h) ==
    LET gate == EvaluateGate(st.rules, st.pending_approvals, action)
        gated == [action EXCEPT !.status = gate.status]
        logged == LogAction(st.audit_logs, gated, None, user_id)
        log_id == Len(logged)
        result == ExecuteAction(st.handlers, gated, h)
        done == [gated EXCEPT !.status = IF result.success THEN "COMPLETED" ELSE "FAILED"]
    IN  IF ~gate.can_proceed
        THEN [st EXCEPT !.pending_approvals = gate.pa,
                        !.audit_logs = logged,
                        !.resp = ActionResponse(FALSE, gated, user_id, FALSE, None)]
        ELSE [st EXCEPT !.audit_logs =
                            UpdateLogOutcome(logged, log_id,
                               IF result.success THEN "SUCCESS" ELSE "FAILED",
                               done.status),
                        !.execs = RecordExec(@, done, "process_action", result),
                        !.events = @ \o PipelineEvents(st.pre_execution_hooks,
                                                       st.post_execution_hooks),
                        !.resp = ActionResponse(result.success, done, user_id, FALSE,
                                                result.error)]

\* process_action from the gate on: audit entry, then either the approval
\* request details or the execution and the audit outcome update
Gated(st, action, user_id, h) ==
    LET gate == EvaluateGate(st.rules, st.pending_approvals, action)
        gated == [action EXCEPT !.status = gate.status]
        logged == LogAction(st.audit_logs, gated, None, user_id)
        log_id == Len(logged)
        result == ExecuteAction(st.handlers, gated, h)
        done == [gated EXCEPT !.status = IF result.success THEN "COMPLETED" ELSE "FAILED"]
    IN  IF ~gate.can_proceed
        THEN [st EXCEPT !.pending_approvals = gate.pa,
                        !.audit_logs = logged,
                        !.resp = ActionResponse(FALSE, gated, user_id, FALSE, None)]
        ELSE [st EXCEPT !.audit_logs =
                            UpdateLogOutcome(logged, log_id,
                               IF result.success THEN "SUCCESS" ELSE result.error,
                               done.status),
                        !.execs = RecordExec(@, done, "process_action", result),
                        !.events = @ \o PipelineEvents(st.pre_execution_hooks,
                                                       st.post_execution_hooks),
                        !.resp = ActionResponse(result.success, done, user_id, FALSE,
                                                result.error)]

ProcessActionNoPatientCheck(st, action, user_id, h) ==
    LET perm == CheckPermission(st.users, user_id, action.agent_type,
                                action.action_type, TRUE, FALSE)
        classified == [action EXCEPT !.risk_level = ClassifyRisk(action.action_type)]
        fb == FallbackEvaluateAction(classified, st.confidence_threshold)
    IN  IF ~perm.allowed THEN PermissionDenied(st, action, user_id)
        ELSE IF fb.should_escalate /\ fb.trigger # None
        THEN Escalated(st, classified, user_id, fb)
        ELSE Gated(st, classified, user_id, h)

ProcessActionTrustsCaller(st, action, user_id, h) ==
    LET perm == CheckPermission(st.users, user_id, action.agent_type,
                                action.action_type, TRUE, FALSE)
        access == CheckPatientAccess(st.users, user_id, "WRITE")
        fb == FallbackEvaluateAction(action, st.confidence_threshold)
    IN  IF ~perm.allowed THEN PermissionDenied(st, action, user_id)
        ELSE IF action.patient_id # None /\ ~access.allowed
        THEN PatientAccessDenied(st, action, user_id, access.reason)
        ELSE IF fb.should_escalate /\ fb.trigger # None
        THEN Escalated(st, action, user_id, fb)
        ELSE Gated(st, action, user_id, h)

\* GovernanceEngine.process_action
ProcessAction(st, action, user_id, h) ==
    LET perm == CheckPermission(st.users, user_id, action.agent_type,
                                action.action_type, TRUE, FALSE)
        access == CheckPatientAccess(st.users, user_id, "WRITE")
        classified == [action EXCEPT !.risk_level = ClassifyRisk(action.action_type)]
        fb == FallbackEvaluateAction(classified, st.confidence_threshold)
    IN  IF ~perm.allowed THEN PermissionDenied(st, action, user_id)
        ELSE IF action.patient_id # None /\ ~access.allowed
        THEN PatientAccessDenied(st, action, user_id, access.reason)
        ELSE IF fb.should_escalate /\ fb.trigger # None
        THEN Escalated(st, classified, user_id, fb)
        ELSE Gated(st, classified, user_id, h)

CheckApproverPermissionAnyone(st, approver_id, request_id) ==
    IF request_id \notin 1..Len(st.pending_approvals) THEN Denied("Request not found")
    ELSE Granted("Permission granted")

\* _check_approver_permission
CheckApproverPermission(st, approver_id, request_id) ==
    IF request_id \notin 1..Len(st.pending_approvals) THEN Denied("Request not found")
    ELSE CheckPermission(st.users, approver_id,
                         st.pending_approvals[request_id].agent_type,
                         "approve", FALSE, TRUE)

ApprovalResponse(success, request_id, approver_id, approved, request_status, action_id, status) ==
    [op |-> "process_approval", success |-> success, request_id |-> request_id,
     approver_id |-> approver_id, approved |-> approved, request_status |-> request_status,
     action_id |-> action_id, status |-> status]

\* the action process_approval rebuilds from an approved request
OriginalAction(request) ==
    [action_id        |-> request.action_id,
     agent_type       |-> request.agent_type,
     action_type      |-> request.action_type,
     patient_id       |-> request.patient_id,
     risk_level       |-> request.risk_level,
     confidence_score |-> request.confidence_score,
     safety_concern   |-> FALSE,
     status           |-> "APPROVED"]

\* GovernanceEngine.process_approval
ProcessApproval(st, request_id, approver_id, approved, h) ==
    LET perm == CheckApproverPermission(st, approver_id, request_id)
        p == RiskProcessApproval(st.pending_approvals, request_id, approver_id, approved)
        request == p.pa[request_id]
        original == OriginalAction(request)
        result == ExecuteAction(st.handlers, original, h)
    IN  IF ~perm.allowed
        THEN [st EXCEPT !.resp = ApprovalResponse(FALSE, request_id, approver_id,
                                       approved, "NOT_AUTHORIZED", 0, "PENDING")]
        ELSE IF request.status = "APPROVED"
        THEN [st EXCEPT !.pending_approvals = p.pa,
                        !.execs = RecordExec(@, original, "process_approval", result),
                        !.resp = ApprovalResponse(result.success, request_id,
                                    approver_id, approved, request.status,
                                    original.action_id, original.status)]
        ELSE [st EXCEPT !.pending_approvals = p.pa,
                        !.resp = ApprovalResponse(p.ret, request_id, approver_id,
                                    approved, request.status, 0, "PENDING")]

\* OrchestratorAgent._reject_action: process_approval with approved=False,
\* then the dictionary of lines 314-319
RejectAction(st, request_id, rejector_id, h) ==
    [ProcessApproval(st, request_id, rejector_id, FALSE, h) EXCEPT
        !.resp = [op |-> "reject_action", success |-> TRUE,
                  request_id |-> request_id, rejected_by |-> rejector_id]]

(* ------------------------------ BiasMonitor ---------------------------- *)

\* Outcome values and rates are exact: a value is held in percent (0.9 is 90)
\* and a rate or ratio is a fraction [num, den]; den = 0 is float('inf').

\* disparate_impact_threshold, the constructor default 0.8
DisparateImpactThresholdDefault == 80

\* the key f"{agent_type.value}_{action_type}" of action_records
BiasKey(agent_type, action_type) == <<agent_type, action_type>>

\* record_action_outcome: one record appended to the key's list; an
\* Optional outcome_value is <<v>> or << >> (None)
RecordActionOutcome(records, key, demographics, outcome, outcome_value) ==
    [records EXCEPT ![key] = Append(@, [demographics  |-> demographics,
                                        outcome       |-> outcome,
                                        outcome_value |-> outcome_value])]

\* lines 91-94: a record with no outcome value counts by its outcome
OutcomeValueAlwaysZero(record) ==
    IF record.outcome_value = << >> THEN 0 ELSE record.outcome_value[1]

OutcomeValue(record) ==
    IF record.outcome_value = << >>
    THEN (IF record.outcome = "POSITIVE" THEN 100 ELSE 0)
    ELSE record.outcome_value[1]

\* lines 86-99: the two outcome lists; a record of the protected group is
\* never also counted for the reference group (elif)
GroupOutcomes(records, dimension, protected_group, reference_group) ==
    LET InProtected(r) == r.demographics[dimension] = protected_group
        InReference(r) == /\ r.demographics[dimension] # protected_group
                          /\ r.demographics[dimension] = reference_group
        Values(rs) == [i \in 1..Len(rs) |-> OutcomeValue(rs[i])]
    IN  [protected |-> Values(SelectSeq(records, InProtected)),
         reference |-> Values(SelectSeq(records, InReference))]

RECURSIVE SumSeq(_)
SumSeq(xs) == IF xs = << >> THEN 0 ELSE Head(xs) + SumSeq(Tail(xs))

\* statistics.mean of a non-empty list of percent values
Mean(xs) == [num |-> SumSeq(xs), den |-> 100 * Len(xs)]

\* lines 108-111
DisparityRatioDividesAlways(protected_rate, reference_rate) ==
    [num |-> protected_rate.num * reference_rate.den,
     den |-> protected_rate.den * reference_rate.num]

DisparityRatio(protected_rate, reference_rate) ==
    IF reference_rate.num = 0
    THEN (IF protected_rate.num = 0 THEN [num |-> 1, den |-> 1]
                                    ELSE [num |-> 1, den |-> 0])
    ELSE [num |-> protected_rate.num * reference_rate.den,
          den |-> protected_rate.den * reference_rate.num]

\* the exact quotient is the threshold itself
AtThreshold(ratio, threshold) ==
    ratio.num * 100 = threshold * ratio.den /\ ratio.den # 0

\* line 113: disparity_ratio < threshold on the float quotient, which is the
\* exact quotient rounded: rounding is -1, 0 or 1 as the float lies below,
\* on or above the exact value, and decides only when the exact quotient is
\* the threshold itself (a metric keeps it only then)
ThresholdExceededInclusive(ratio, rounding, threshold) ==
    ratio.num * 100 <= threshold * ratio.den

ThresholdExceeded(ratio, rounding, threshold) ==
    \/ ratio.num * 100 < threshold * ratio.den
    \/ AtThreshold(ratio, threshold) /\ rounding < 0

\* _create_compliance_event
CreateComplianceEvent(events, metric) ==
    Append(events, [event_id             |-> Len(events) + 1,
                    event_type           |-> "BIAS_DETECTED",
                    severity             |-> "WARNING",
                    affected_agents      |-> <<metric.agent_type>>,
                    remediation_required |-> TRUE,
                    remediation_status   |-> "PENDING"])

SufficientSamplesNoGroupMinimum(records, outcomes) == Len(records) >= 10

\* lines 83-85 and 101-103: the two minimums
SufficientSamples(records, outcomes) ==
    /\ Len(records) >= 10
    /\ Len(outcomes.protected) >= 5
    /\ Len(outcomes.reference) >= 5

\* calculate_disparate_impact on the monitor bm = [action_records, metrics,
\* compliance_events, disparate_impact_threshold]; ret is << >> for None and
\* <<metric>> for a returned metric
CalculateDisparateImpact(bm, agent_type, action_type, dimension, protected_group, reference_group, rounding) ==
    LET records  == bm.action_records[BiasKey(agent_type, action_type)]
        outcomes == GroupOutcomes(records, dimension, protected_group, reference_group)
    IN  IF ~SufficientSamples(records, outcomes)
        THEN [ret |-> << >>, metrics |-> bm.metrics,
              compliance_events |-> bm.compliance_events]
        ELSE
          LET protected_rate  == Mean(outcomes.protected)
              reference_rate  == Mean(outcomes.reference)
              disparity_ratio == DisparityRatio(protected_rate, reference_rate)
              metric ==
                [metric_id          |-> Len(bm.metrics) + 1,
                 metric_type        |-> "DISPARATE_IMPACT",
                 dimension          |-> dimension,
                 agent_type         |-> agent_type,
                 action_type        |-> action_type,
                 baseline_rate      |-> reference_rate,
                 observed_rate      |-> protected_rate,
                 disparity_ratio    |-> disparity_ratio,
                 rounding           |->
                    IF AtThreshold(disparity_ratio, bm.disparate_impact_threshold)
                    THEN rounding ELSE 0,
                 threshold_exceeded |->
                    ThresholdExceeded(disparity_ratio, rounding,
                                      bm.disparate_impact_threshold),
                 sample_size        |-> Len(outcomes.protected) + Len(outcomes.reference)]
          IN  [ret |-> <<metric>>,
               metrics |-> Append(bm.metrics, metric),
               compliance_events |->
                  IF metric.threshold_exceeded
                  THEN CreateComplianceEvent(bm.compliance_events, metric)
                  ELSE bm.compliance_events]

\* run_full_bias_analysis, line 271: the dimensions analysed, in order
BiasDimensions == <<"age", "gender", "race", "ethnicity", "language">>

\* record["demographics"].get(dimension)
DimensionOf(record, dimension) ==
    IF dimension \in DOMAIN record.demographics
    THEN record.demographics[dimension] ELSE None

\* calculate_demographic_parity: the groups of its result, in the order the
\* records first name them (each has at least one outcome, so a rate)
ParityGroups(records, dimension) ==
    LET groups == {DimensionOf(records[i], dimension) : i \in 1..Len(records)} \ {None}
        First(g) == CHOOSE i \in 1..Len(records) :
                       /\ DimensionOf(records[i], dimension) = g
                       /\ \A j \in 1..(i - 1) : DimensionOf(records[j], dimension) # g
        n == Cardinality(groups)
    IN  CHOOSE s \in [1..n -> groups] :
           \A i, j \in 1..n : i < j => First(s[i]) < First(s[j])

\* lines 293-295: protected = groups[i], reference in groups[i+1:]
AnalysisPairs(groups) ==
    LET n == Len(groups)
        pairs == {p \in (1..n) \X (1..n) : p[1] < p[2]}
        m == Cardinality(pairs)
        order == CHOOSE s \in [1..m -> pairs] :
                    \A i, j \in 1..m :
                       i < j => \/ s[i][1] < s[j][1]
                                \/ s[i][1] = s[j][1] /\ s[i][2] < s[j][2]
    IN  [k \in 1..m |-> <<groups[order[k][1]], groups[order[k][2]]>>]

RECURSIVE Flatten(_)
Flatten(ss) == IF ss = << >> THEN << >> ELSE Head(ss) \o Flatten(Tail(ss))

\* lines 282-296: the calculate_disparate_impact calls of one analysis, in
\* order; len(parity) >= 2 is a pair existing
AnalysisCalls(records, agents, actions) ==
    Flatten([a \in 1..Len(agents) |->
       Flatten([t \in 1..Len(actions) |->
          Flatten([d \in 1..Len(BiasDimensions) |->
             LET pairs == AnalysisPairs(
                             ParityGroups(records[BiasKey(agents[a], actions[t])],
                                          BiasDimensions[d]))
             IN  [k \in 1..Len(pairs) |->
                    [agent |-> agents[a], action |-> actions[t],
                     dimension |-> BiasDimensions[d],
                     protected_group |-> pairs[k][1],
                     reference_group |-> pairs[k][2]]]])])])

\* lines 296-319: one call after the other on the monitor, the results
\* collected in res
RECURSIVE RunAnalysisCalls(_, _, _, _)
RunAnalysisCalls(bm, calls, rounding, res) ==
    IF calls = << >>
    THEN [ret |-> [res EXCEPT !.total_analyses = Len(res.analyses),
                              !.total_violations = Len(res.violations)],
          metrics |-> bm.metrics, compliance_events |-> bm.compliance_events]
    ELSE
      LET call == Head(calls)
          c == CalculateDisparateImpact(bm, call.agent, call.action, call.dimension,
                                        call.protected_group, call.reference_group,
                                        rounding)
          after == [bm EXCEPT !.metrics = c.metrics,
                              !.compliance_events = c.compliance_events]
      IN  IF c.ret = << >> THEN RunAnalysisCalls(after, Tail(calls), rounding, res)
          ELSE
            LET metric == c.ret[1]
                analysis == [agent |-> call.agent, action |-> call.action,
                             dimension |-> call.dimension,
                             protected_group |-> call.protected_group,
                             reference_group |-> call.reference_group,
                             disparity_ratio |-> metric.disparity_ratio,
                             threshold_exceeded |-> metric.threshold_exceeded]
                violation == [metric_id |-> metric.metric_id, agent |-> call.agent,
                              action |-> call.action, dimension |-> call.dimension,
                              ratio |-> metric.disparity_ratio]
            IN  RunAnalysisCalls(after, Tail(calls), rounding,
                   [res EXCEPT !.analyses = Append(@, analysis),
                               !.violations = IF metric.threshold_exceeded
                                              THEN Append(@, violation) ELSE @])

\* run_full_bias_analysis over the agents given (one, or all of AgentType in
\* the order of the enumeration) and the action types recorded for them
RunFullBiasAnalysis(bm, agents, actions, rounding) ==
    RunAnalysisCalls(bm, AnalysisCalls(bm.action_records, agents, actions), rounding,
                     [threshold |-> bm.disparate_impact_threshold,
                      analyses |-> << >>, violations |-> << >>,
                      total_analyses |-> 0, total_violations |-> 0])

\* update_compliance_event; assigned_to is not modelled
UpdateComplianceEvent(events, event_id, status) ==
    IF ~Found(events, event_id) THEN [ret |-> FALSE, compliance_events |-> events]
    ELSE [ret |-> TRUE,
          compliance_events |-> [events EXCEPT ![event_id].remediation_status = status]]

(* --------------------------- human_override ---------------------------- *)

\* strings that are searched are sequences of characters
AgentTypeText(agent_type) ==
    CASE agent_type = "MEDICATION" -> <<"M","E","D","I","C","A","T","I","O","N">>
      [] agent_type = "BILLING" -> <<"B","I","L","L","I","N","G">>
      [] agent_type = "CARE_PLANNING" ->
            <<"C","A","R","E","_","P","L","A","N","N","I","N","G">>

\* AgentAction.action_id, str(uuid.uuid4()): 36 characters in the groups
\* 8-4-4-4-12; the n-th action created has the n-th such id
UuidText(n) ==
    [i \in 1..36 |->
        IF i \in {9, 14, 19, 24} THEN "-"
        ELSE IF i = 15 THEN "4"
        ELSE IF i = 20 THEN "8"
        ELSE IF i = 1 THEN <<"1", "2", "3", "4", "5", "6", "7", "9">>[n]
        ELSE "0"]

\* log_action, line 47: agent_id = f"{agent_type}_{action_id[:8]}"
AgentId(entry) ==
    AgentTypeText(entry.agent_type) \o <<"_">>
       \o SubSeq(UuidText(entry.action_id), 1, 8)

\* Python's `x in s` on strings
IsSubstring(x, s) ==
    \E i \in 0..(Len(s) - Len(x)) : SubSeq(s, i + 1, i + Len(x)) = x

\* GovernanceEngine.human_override: the first entry, in insertion order,
\* whose agent_id contains action_id
HumanOverride(logs, action_id, override_by) ==
    LET matches == {i \in 1..Len(logs) : IsSubstring(action_id, AgentId(logs[i]))}
    IN  IF matches = {} THEN [ret |-> FALSE, audit_logs |-> logs]
        ELSE LET log_id == CHOOSE i \in matches : \A j \in matches : i <= j
             IN  [ret |-> Found(logs, log_id),
                  audit_logs |-> RecordHumanOverride(logs, log_id, override_by)]

(* ----------------------------- state ----------------------------------- *)

VARIABLES
    rules,              \* RiskGateManager.rules, in insertion order
    pending_approvals,  \* RiskGateManager.pending_approvals, in insertion order
    rule_ops,           \* add_rule / update_rule calls made so far
    action_count,       \* actions created so far (a fresh action_id each)
    users,              \* RBACManager.users
    user_ops,           \* RBAC administrative calls made so far
    handlers,           \* GovernanceEngine._action_handlers (the keys)
    audit_logs,         \* AuditTrailManager.audit_logs, in insertion order
    access_logs,        \* AuditTrailManager.access_logs
    escalation_logs,    \* AuditTrailManager.escalation_logs
    escalations,        \* FallbackManager escalation records
    execs,              \* the _execute_action calls made, in order
    registered_agents,  \* OrchestratorAgent.registered_agents: type -> is_active
    dispatches,         \* the domain-agent process calls made by the orchestrator
    log_index_by_patient,   \* AuditTrailManager._log_index_by_patient
    log_index_by_agent,     \* AuditTrailManager._log_index_by_agent
    log_index_by_session,   \* AuditTrailManager._log_index_by_session
    calls,              \* RiskGateManager.process_approval calls begun: their frames
    action_records,     \* BiasMonitor.action_records: key -> records, in order
    metrics,            \* BiasMonitor.metrics, in insertion order
    compliance_events,  \* BiasMonitor.compliance_events, in insertion order
    record_ops,         \* record_action_outcome calls made after the initial samples
    workflow_states,    \* OrchestratorAgent.workflow_states, in creation order
    pre_execution_hooks,    \* GovernanceEngine._pre_execution_hooks
    post_execution_hooks,   \* GovernanceEngine._post_execution_hooks
    events,             \* the calls made by process_action after the gate, in order
    ret                 \* the last call: its name, arguments and return value

gate_vars == <<rules, pending_approvals, rule_ops, action_count>>

index_vars == <<log_index_by_patient, log_index_by_agent, log_index_by_session>>

hook_vars == <<pre_execution_hooks, post_execution_hooks, events>>

engine_vars ==
    <<users, user_ops, handlers, audit_logs, index_vars, access_logs,
      escalation_logs, escalations, execs, hook_vars>>

orch_vars == <<registered_agents, dispatches, workflow_states>>

conc_vars == <<calls>>

bias_vars == <<action_records, metrics, compliance_events, record_ops>>

vars == <<gate_vars, engine_vars, orch_vars, conc_vars, bias_vars, ret>>

NoCall == [op |-> "init"]

(* ------------------ RiskGateManager used on its own -------------------- *)

\* the risk level on a submitted action: the constructor default (LOW) or
\* the level assigned from classify_risk / _assess_risk
SubmittedLevels(action_type) == {"LOW", ClassifyRisk(action_type)}

AgentOf(action_type) ==
    IF action_type = "submit_claim" THEN "BILLING"
    ELSE IF action_type = "care_plan_update" THEN "CARE_PLANNING"
    ELSE "MEDICATION"

NewAction(id, action_type, risk_level, confidence, patient_id) ==
    [action_id        |-> id,
     agent_type       |-> AgentOf(action_type),
     action_type      |-> action_type,
     patient_id       |-> patient_id,
     risk_level       |-> risk_level,
     confidence_score |-> confidence,
     safety_concern   |-> FALSE,
     status           |-> "PENDING"]

RECURSIVE ApprovalsRecorded(_)
ApprovalsRecorded(pa) ==
    IF pa = << >> THEN 0 ELSE Len(Head(pa).approved_by) + ApprovalsRecorded(Tail(pa))

EmptyMap == [x \in {} |-> None]

\* a RiskGateManager, an AuditTrailManager, an RBACManager, a FallbackManager,
\* a GovernanceEngine and an OrchestratorAgent right after construction
FreshGovernance ==
    /\ rules = DefaultRules
    /\ pending_approvals = << >>
    /\ rule_ops = 0
    /\ action_count = 0
    /\ user_ops = 0
    /\ handlers = {}
    /\ audit_logs = << >>
    /\ log_index_by_patient = EmptyMap
    /\ log_index_by_agent = EmptyMap
    /\ log_index_by_session = EmptyMap
    /\ calls = << >>
    /\ access_logs = << >>
    /\ escalation_logs = << >>
    /\ escalations = << >>
    /\ execs = << >>
    /\ registered_agents = EmptyMap
    /\ dispatches = << >>
    /\ workflow_states = << >>
    /\ pre_execution_hooks = << >>
    /\ post_execution_hooks = << >>
    /\ events = << >>
    /\ ret = NoCall

\* the agent and action types outcomes are recorded for
BiasAgents == {"MEDICATION", "BILLING"}

BiasActions == {"medication_change"}

BiasKeys == {BiasKey(a, t) : a \in BiasAgents, t \in BiasActions}

\* BiasMonitor.__init__; a key never recorded reads as the empty list
FreshBiasMonitor ==
    /\ action_records = [k \in BiasKeys |-> << >>]
    /\ metrics = << >>
    /\ compliance_events = << >>
    /\ record_ops = 0

FreshManagers == FreshGovernance /\ FreshBiasMonitor

Constructed == FreshManagers /\ users = EmptyMap

InitGate == Constructed

GateEvaluate ==
    /\ action_count < MaxGateActions
    /\ \E t \in ActionTypes, c \in Confidences :
       \E l \in SubmittedLevels(t) :
          LET action == NewAction(action_count + 1, t, l, c, "p1")
              g == EvaluateGate(rules, pending_approvals, action)
          IN  /\ pending_approvals' = g.pa
              /\ ret' = [op |-> "evaluate_gate", action |-> action,
                         can_proceed |-> g.can_proceed,
                         request_id |-> IF g.can_proceed THEN 0
                                        ELSE g.request.request_id,
                         status |-> g.status]
    /\ action_count' = action_count + 1
    /\ UNCHANGED <<rules, rule_ops, engine_vars, orch_vars, conc_vars, bias_vars>>

GateProcessApproval ==
    /\ \E rid \in 1..(Len(pending_approvals) + 1), a \in Approvers, approved \in BOOLEAN :
          /\ (approved /\ rid <= Len(pending_approvals))
                => ApprovalsRecorded(pending_approvals) < MaxApprovals
          /\ LET p == RiskProcessApproval(pending_approvals, rid, a, approved)
             IN  /\ pending_approvals' = p.pa
                 /\ ret' = [op |-> "process_approval", request_id |-> rid,
                            approved |-> approved, ret |-> p.ret]
    /\ UNCHANGED <<rules, rule_ops, action_count, engine_vars, orch_vars, conc_vars, bias_vars>>

NextGate == GateEvaluate \/ GateProcessApproval

SpecGate == InitGate /\ [][NextGate]_vars

(* ------- RiskGateManager.process_approval called from threads ---------- *)

\* The calls run with no lock: each step below is one read or write of the
\* shared request, and steps of different calls interleave freely.

\* lines 172-178: the lookup and the branch on approved
ConcBegin ==
    /\ Len(calls) < MaxCalls
    /\ \E rid \in 1..Len(pending_approvals), a \in Approvers, approved \in BOOLEAN :
          calls' = Append(calls,
                     [pc |-> IF approved THEN "append" ELSE "reject",
                      request_id |-> rid, approver_id |-> a, approved |-> approved,
                      loaded |-> 0, ret |-> None])
    /\ ret' = [op |-> "process_approval_step"]
    /\ UNCHANGED <<gate_vars, engine_vars, orch_vars, bias_vars>>

\* the step of call i at program point pc: new frame and new request
ConcStep(i, pc, frame, request) ==
    /\ i \in 1..Len(calls)
    /\ calls[i].pc = pc
    /\ calls' = [calls EXCEPT ![i] = frame]
    /\ pending_approvals' = [pending_approvals EXCEPT ![calls[i].request_id] = request]
    /\ ret' = [op |-> "process_approval_step"]
    /\ UNCHANGED <<rules, rule_ops, action_count, engine_vars, orch_vars, bias_vars>>

\* line 179: request.approved_by.append(approver_id)
ConcAppend ==
    \E i \in 1..Len(calls) :
       LET c == calls[i]  r == pending_approvals[c.request_id]
       IN  ConcStep(i, "append", [c EXCEPT !.pc = "load"],
                    [r EXCEPT !.approved_by = Append(@, c.approver_id)])

\* line 180, the read of request.current_approvals
ConcLoad ==
    \E i \in 1..Len(calls) :
       LET c == calls[i]  r == pending_approvals[c.request_id]
       IN  ConcStep(i, "load",
                    [c EXCEPT !.pc = "store", !.loaded = r.current_approvals], r)

\* line 180, the write of request.current_approvals
ConcStore ==
    \E i \in 1..Len(calls) :
       LET c == calls[i]  r == pending_approvals[c.request_id]
       IN  ConcStep(i, "store", [c EXCEPT !.pc = "test"],
                    [r EXCEPT !.current_approvals = c.loaded + 1])

\* line 182 and the else branch, lines 186-191
ConcTest ==
    \E i \in 1..Len(calls) :
       LET c == calls[i]  r == pending_approvals[c.request_id]
       IN  ConcStep(i, "test",
                    IF ThresholdReached(r) THEN [c EXCEPT !.pc = "finalize"]
                    ELSE [c EXCEPT !.pc = "done", !.ret = FALSE],
                    r)

\* lines 183-185: status APPROVED, return True
ConcFinalize ==
    \E i \in 1..Len(calls) :
       LET c == calls[i]  r == pending_approvals[c.request_id]
       IN  ConcStep(i, "finalize", [c EXCEPT !.pc = "done", !.ret = TRUE],
                    [r EXCEPT !.status = "APPROVED"])

\* lines 193-197: status REJECTED, rejected_by, return False
ConcReject ==
    \E i \in 1..Len(calls) :
       LET c == calls[i]  r == pending_approvals[c.request_id]
       IN  ConcStep(i, "reject", [c EXCEPT !.pc = "done", !.ret = FALSE],
                    RejectRequest(r, c.approver_id))

NextConc ==
    \/ GateEvaluate
    \/ ConcBegin
    \/ ConcAppend
    \/ ConcLoad
    \/ ConcStore
    \/ ConcTest
    \/ ConcFinalize
    \/ ConcReject

SpecConc == InitGate /\ [][NextConc]_vars

(* ------------- RiskGateManager under rule administration --------------- *)

\* values the administrative calls write into a rule
RuleThresholds == {0, 100}

ApproverCounts == {1, 2}

\* the (key, value) pairs update_rule sets on a rule
RuleUpdates ==
    [key : {"risk_level"}, value : Levels]
      \cup [key : {"confidence_threshold"}, value : RuleThresholds]
      \cup [key : {"requires_approval"}, value : BOOLEAN]
      \cup [key : {"required_approvers"}, value : ApproverCounts]
      \cup [key : {"enabled"}, value : BOOLEAN]

SetAttr(rule, u) ==
    IF u.key = "risk_level" THEN [rule EXCEPT !.risk_level = u.value]
    ELSE IF u.key = "confidence_threshold"
    THEN [rule EXCEPT !.confidence_threshold = u.value]
    ELSE IF u.key = "requires_approval" THEN [rule EXCEPT !.requires_approval = u.value]
    ELSE IF u.key = "required_approvers" THEN [rule EXCEPT !.required_approvers = u.value]
    ELSE [rule EXCEPT !.enabled = u.value]

\* add_rule with a rule carrying a fresh rule_id
AddRule ==
    /\ rule_ops < MaxRuleOps
    /\ \E l \in Levels, th \in RuleThresholds, ra \in BOOLEAN, n \in ApproverCounts :
          rules' = Append(rules,
                     [rule_id |-> Len(rules) + 1, risk_level |-> l,
                      confidence_threshold |-> th, requires_approval |-> ra,
                      required_approvers |-> n, enabled |-> TRUE])
    /\ rule_ops' = rule_ops + 1
    /\ ret' = [op |-> "add_rule"]
    /\ UNCHANGED <<pending_approvals, action_count, engine_vars, orch_vars, conc_vars, bias_vars>>

UpdateRule ==
    /\ rule_ops < MaxRuleOps
    /\ \E rule_id \in 1..(Len(rules) + 1), u \in RuleUpdates :
          IF rule_id \in 1..Len(rules)
          THEN /\ rules' = [rules EXCEPT ![rule_id] = SetAttr(@, u)]
               /\ ret' = [op |-> "update_rule", ret |-> TRUE]
          ELSE /\ rules' = rules
               /\ ret' = [op |-> "update_rule", ret |-> FALSE]
    /\ rule_ops' = rule_ops + 1
    /\ UNCHANGED <<pending_approvals, action_count, engine_vars, orch_vars, conc_vars, bias_vars>>

NextRules == GateEvaluate \/ AddRule \/ UpdateRule

SpecRules == InitGate /\ [][NextRules]_vars


(* --------------------------- GovernanceEngine -------------------------- *)

\* register_user: a new account is active and has no overrides
RegisterUser(us, user_id, role) ==
    [u \in DOMAIN us \cup {user_id} |->
        IF u = user_id
        THEN [role |-> role, is_active |-> TRUE, permissions_override |-> << >>]
        ELSE us[u]]

\* the accounts registered before the engine takes calls
Staff ==
    RegisterUser(RegisterUser(EmptyMap, "u_dir", "CLINICAL_DIRECTOR"),
                 "u_bill", "BILLING_STAFF")

\* the user ids calls are made with: the staff and an id that is not registered
Callers == DOMAIN Staff \cup {"u_none"}

\* actions named in permission overrides
OverrideActions == {"approve"}

Patients == {None, "p1"}

\* what a registered handler does when called: return success, return a
\* failure, raise
HandlerOutcomes == {"ok", "fail", "raise"}

\* confidence scores submitted to the engine (percent)
EngineConfidences == {50, 85}

EngineState ==
    [users |-> users, rules |-> rules, pending_approvals |-> pending_approvals,
     handlers |-> handlers, audit_logs |-> audit_logs, access_logs |-> access_logs,
     escalation_logs |-> escalation_logs, escalations |-> escalations,
     execs |-> execs, confidence_threshold |-> ConfidenceThresholdDefault,
     pre_execution_hooks |-> pre_execution_hooks,
     post_execution_hooks |-> post_execution_hooks, events |-> events,
     resp |-> ret]

\* the engine's state after a call
Becomes(st) ==
    /\ users' = st.users
    /\ pending_approvals' = st.pending_approvals
    /\ audit_logs' = st.audit_logs
    /\ log_index_by_patient'
          = IndexLogged(log_index_by_patient, audit_logs, st.audit_logs, "patient_id")
    /\ log_index_by_agent'
          = IndexLogged(log_index_by_agent, audit_logs, st.audit_logs, "agent_type")
    /\ log_index_by_session'
          = IndexLogged(log_index_by_session, audit_logs, st.audit_logs, "session_id")
    /\ access_logs' = st.access_logs
    /\ escalation_logs' = st.escalation_logs
    /\ escalations' = st.escalations
    /\ execs' = st.execs
    /\ events' = st.events
    /\ ret' = st.resp

Init == FreshManagers /\ users = Staff

\* with no handler registered no handler outcome is drawn
OutcomesFor(hs) == IF hs = {} THEN {"ok"} ELSE HandlerOutcomes

\* the risk level a caller puts on the action it submits: the constructor
\* default or the highest tier
EngineSubmittedLevels == {"LOW", "CRITICAL"}

EngineProcessAction ==
    /\ action_count < MaxActions
    /\ \E u \in Callers, t \in ActionTypes, c \in EngineConfidences, p \in Patients,
          l \in EngineSubmittedLevels, h \in OutcomesFor(handlers) :
          Becomes(ProcessAction(EngineState,
                                NewAction(action_count + 1, t, l, c, p), u, h))
    /\ action_count' = action_count + 1
    /\ UNCHANGED <<rules, rule_ops, user_ops, handlers, pre_execution_hooks,
                   post_execution_hooks, orch_vars, conc_vars, bias_vars>>

EngineProcessApproval ==
    /\ \E rid \in 1..(Len(pending_approvals) + 1), a \in Callers, approved \in BOOLEAN,
          h \in OutcomesFor(handlers) :
          /\ approved => ApprovalsRecorded(pending_approvals) < MaxApprovals
          /\ Becomes(ProcessApproval(EngineState, rid, a, approved, h))
    /\ UNCHANGED <<rules, rule_ops, action_count, user_ops, handlers,
                   pre_execution_hooks, post_execution_hooks, orch_vars, conc_vars,
                   bias_vars>>

\* the action types handlers are registered for: one that is always gated
\* (HIGH) and one that can pass the gate (LOW)
HandledTypes == {"medication_change", "submit_claim"}

\* register_action_handler
RegisterActionHandler ==
    /\ \E t \in HandledTypes :
          /\ <<AgentOf(t), t>> \notin handlers
          /\ handlers' = handlers \cup {<<AgentOf(t), t>>}
    /\ ret' = [op |-> "register_action_handler"]
    /\ UNCHANGED <<gate_vars, users, user_ops, audit_logs, index_vars, access_logs,
                   escalation_logs, escalations, execs, hook_vars, orch_vars, conc_vars, bias_vars>>

UserAdmin(op, result) ==
    /\ user_ops < MaxUserOps
    /\ users' = result.users
    /\ user_ops' = user_ops + 1
    /\ ret' = [op |-> op, ret |-> result.ret]
    /\ UNCHANGED <<gate_vars, handlers, audit_logs, index_vars, access_logs,
                   escalation_logs, escalations, execs, hook_vars, orch_vars, conc_vars, bias_vars>>

DeactivateUser == \E u \in Callers : UserAdmin("deactivate_user", SetActive(users, u, FALSE))

ActivateUser == \E u \in Callers : UserAdmin("activate_user", SetActive(users, u, TRUE))

GrantOverride ==
    \E u \in Callers, by \in Callers, a \in OverrideActions :
       UserAdmin("grant_permission_override", GrantPermissionOverride(users, u, a, by))

RevokeOverride ==
    \E u \in Callers, a \in OverrideActions :
       UserAdmin("revoke_permission_override", RevokePermissionOverride(users, u, a))

Next ==
    \/ EngineProcessAction
    \/ EngineProcessApproval
    \/ RegisterActionHandler
    \/ DeactivateUser
    \/ ActivateUser
    \/ GrantOverride
    \/ RevokeOverride

Spec == Init /\ [][Next]_vars


(* ------------------ GovernanceEngine with hooks registered ------------- *)

MaxHooks == 2

HookBehaviours == {"ok", "raise"}

\* add_pre_execution_hook
AddPreExecutionHook ==
    /\ Len(pre_execution_hooks) < MaxHooks
    /\ \E hook \in HookBehaviours : pre_execution_hooks' = Append(pre_execution_hooks, hook)
    /\ ret' = [op |-> "add_pre_execution_hook"]
    /\ UNCHANGED <<gate_vars, users, user_ops, handlers, audit_logs, index_vars,
                   access_logs, escalation_logs, escalations, execs,
                   post_execution_hooks, events, orch_vars, conc_vars, bias_vars>>

\* add_post_execution_hook
AddPostExecutionHook ==
    /\ Len(post_execution_hooks) < MaxHooks
    /\ \E hook \in HookBehaviours : post_execution_hooks' = Append(post_execution_hooks, hook)
    /\ ret' = [op |-> "add_post_execution_hook"]
    /\ UNCHANGED <<gate_vars, users, user_ops, handlers, audit_logs, index_vars,
                   access_logs, escalation_logs, escalations, execs,
                   pre_execution_hooks, events, orch_vars, conc_vars, bias_vars>>

NextHooks ==
    \/ AddPreExecutionHook
    \/ AddPostExecutionHook
    \/ RegisterActionHandler
    \/ EngineProcessAction

SpecHooks == Init /\ [][NextHooks]_vars

(* ------------------ GovernanceEngine: human overrides ------------------ *)

\* the ids human_override is called with: the id of each action created so
\* far, the id of an action not yet created, and the first eight
\* characters of an id
OverrideIds ==
    {UuidText(n) : n \in 1..(action_count + 1)}
       \cup {SubSeq(UuidText(n), 1, 8) : n \in 1..(action_count + 1)}

EngineHumanOverride ==
    /\ \E action_id \in OverrideIds, by \in DOMAIN Staff :
          LET o == HumanOverride(audit_logs, action_id, by)
          IN  /\ audit_logs' = o.audit_logs
              /\ ret' = [op |-> "human_override", action_id |-> action_id,
                         override_by |-> by, ret |-> o.ret]
    /\ UNCHANGED <<gate_vars, users, user_ops, handlers, index_vars, access_logs,
                   escalation_logs, escalations, execs, hook_vars, orch_vars, conc_vars,
                   bias_vars>>

NextOverride == EngineProcessAction \/ EngineHumanOverride

SpecOverride == Init /\ [][NextOverride]_vars

(* ------------------ AuditTrailManager used on its own ------------------ *)

\* action types of the logged actions: two agent types
LoggedTypes == {"medication_change", "submit_claim"}

Sessions == {None, "s1"}

AuditLogAction ==
    /\ Len(audit_logs) < MaxLogs
    /\ \E t \in LoggedTypes, p \in Patients, session_id \in Sessions :
          LET action == NewAction(Len(audit_logs) + 1, t, ClassifyRisk(t), 85, p)
              log_id == Len(audit_logs) + 1
          IN  /\ audit_logs' = LogAction(audit_logs, action, session_id, "u_dir")
              /\ log_index_by_patient'
                    = IndexAppend(log_index_by_patient, action.patient_id, log_id)
              /\ log_index_by_agent'
                    = IndexAppend(log_index_by_agent, action.agent_type, log_id)
              /\ log_index_by_session'
                    = IndexAppend(log_index_by_session, session_id, log_id)
              /\ ret' = [op |-> "log_action", log_id |-> log_id]
    /\ UNCHANGED <<gate_vars, users, user_ops, handlers, access_logs, escalation_logs,
                   escalations, execs, hook_vars, orch_vars, conc_vars, bias_vars>>

AuditUpdateLogOutcome ==
    /\ \E log_id \in 1..(Len(audit_logs) + 1) :
          /\ audit_logs' = UpdateLogOutcome(audit_logs, log_id, "SUCCESS", "COMPLETED")
          /\ ret' = [op |-> "update_log_outcome", log_id |-> log_id,
                     ret |-> Found(audit_logs, log_id)]
    /\ UNCHANGED <<gate_vars, users, user_ops, handlers, index_vars, access_logs,
                   escalation_logs, escalations, execs, hook_vars, orch_vars, conc_vars, bias_vars>>

AuditRecordHumanOverride ==
    /\ \E log_id \in 1..(Len(audit_logs) + 1) :
          /\ audit_logs' = RecordHumanOverride(audit_logs, log_id, "u_dir")
          /\ ret' = [op |-> "record_human_override", log_id |-> log_id,
                     ret |-> Found(audit_logs, log_id)]
    /\ UNCHANGED <<gate_vars, users, user_ops, handlers, index_vars, access_logs,
                   escalation_logs, escalations, execs, hook_vars, orch_vars, conc_vars, bias_vars>>

AuditLogEscalation ==
    /\ Len(escalation_logs) < MaxLogs
    /\ escalation_logs'
          = LogEscalation(escalation_logs,
               NewAction(Len(escalation_logs) + 1, "medication_change", "HIGH", 50, "p1"),
               "Confidence below threshold")
    /\ ret' = [op |-> "log_escalation", escalation_id |-> Len(escalation_logs) + 1]
    /\ UNCHANGED <<gate_vars, users, user_ops, handlers, audit_logs, index_vars,
                   access_logs, escalations, execs, hook_vars, orch_vars, conc_vars, bias_vars>>

Resolvers == {"u_dir", "u_nurse"}

ResolutionActions == {"reviewed", "dismissed"}

AuditResolveEscalation ==
    /\ \E escalation_id \in 1..(Len(escalation_logs) + 1),
          resolved_by \in Resolvers, resolution_action \in ResolutionActions :
          /\ escalation_logs' = ResolveEscalation(escalation_logs, escalation_id,
                                                  resolved_by, resolution_action)
          /\ ret' = [op |-> "resolve_escalation", escalation_id |-> escalation_id,
                     resolved_by |-> resolved_by,
                     resolution_action |-> resolution_action,
                     ret |-> Found(escalation_logs, escalation_id)]
    /\ UNCHANGED <<gate_vars, users, user_ops, handlers, audit_logs, index_vars,
                   access_logs, escalations, execs, hook_vars, orch_vars, conc_vars, bias_vars>>

NextAudit ==
    \/ AuditLogAction
    \/ AuditUpdateLogOutcome
    \/ AuditRecordHumanOverride
    \/ AuditLogEscalation
    \/ AuditResolveEscalation

SpecAudit == InitGate /\ [][NextAudit]_vars

(* ------------- AuditTrailManager with its three stores ------------------ *)

\* access logs and escalation logs written beside the two audit entries
MaxTrailLogs == 1

\* log_access: a PHI access by the billing clerk, allowed or denied
AuditLogAccess ==
    /\ Len(access_logs) < MaxTrailLogs
    /\ \E success \in BOOLEAN :
          access_logs' = LogAccess(access_logs, "u_bill", Staff["u_bill"].role, "p1",
                                   "patient_record", success,
                                   IF success THEN None ELSE "denied")
    /\ ret' = [op |-> "log_access", access_id |-> Len(access_logs) + 1]
    /\ UNCHANGED <<gate_vars, users, user_ops, handlers, audit_logs, index_vars,
                   escalation_logs, escalations, execs, hook_vars, orch_vars, conc_vars,
                   bias_vars>>

\* log_escalation, beside the other two stores
TrailLogEscalation ==
    /\ Len(escalation_logs) < MaxTrailLogs
    /\ escalation_logs'
          = LogEscalation(escalation_logs,
               NewAction(Len(escalation_logs) + 1, "medication_change", "HIGH", 50, "p1"),
               "Confidence below threshold")
    /\ ret' = [op |-> "log_escalation", escalation_id |-> Len(escalation_logs) + 1]
    /\ UNCHANGED <<gate_vars, users, user_ops, handlers, audit_logs, index_vars,
                   access_logs, escalations, execs, hook_vars, orch_vars, conc_vars, bias_vars>>

NextTrail ==
    \/ AuditLogAction
    \/ AuditUpdateLogOutcome
    \/ AuditRecordHumanOverride
    \/ TrailLogEscalation
    \/ AuditResolveEscalation
    \/ AuditLogAccess

SpecTrail == InitGate /\ [][NextTrail]_vars

(* --------------------- RBACManager used on its own --------------------- *)

\* the id registered by register_user after construction
NewUsers == {"u_new"}

RbacCallers == Callers \cup NewUsers

\* arguments of the check calls made in the model
RbacAgents == {"MEDICATION", "BILLING"}

RbacActions == {"approve", "submit_claim"}

AccessTypes == {"VIEW", "WRITE", "BILLING"}

RbacAdmin(op, result) ==
    /\ user_ops < MaxRbacOps
    /\ users' = result.users
    /\ user_ops' = user_ops + 1
    /\ ret' = [op |-> op, ret |-> result.ret]
    /\ UNCHANGED <<gate_vars, handlers, audit_logs, index_vars, access_logs,
                   escalation_logs, escalations, execs, hook_vars, orch_vars, conc_vars, bias_vars>>

RbacRegisterUser ==
    \E u \in NewUsers, role \in Roles :
       /\ u \notin DOMAIN users
       /\ RbacAdmin("register_user", [ret |-> TRUE, users |-> RegisterUser(users, u, role)])

RbacDeactivateUser ==
    \E u \in RbacCallers : RbacAdmin("deactivate_user", SetActive(users, u, FALSE))

RbacActivateUser ==
    \E u \in RbacCallers : RbacAdmin("activate_user", SetActive(users, u, TRUE))

\* a call on the override list of user_id made by the user `by`
RbacOverrideCall(op, user_id, action, by, result) ==
    /\ user_ops < MaxRbacOps
    /\ users' = result.users
    /\ user_ops' = user_ops + 1
    /\ ret' = [op |-> op, user_id |-> user_id, action |-> action, by |-> by,
               ret |-> result.ret]
    /\ UNCHANGED <<gate_vars, handlers, audit_logs, index_vars, access_logs,
                   escalation_logs, escalations, execs, hook_vars, orch_vars, conc_vars, bias_vars>>

RbacGrantOverride ==
    \E u \in RbacCallers, by \in RbacCallers, a \in RbacActions :
       RbacOverrideCall("grant_permission_override", u, a, by,
                        GrantPermissionOverride(users, u, a, by))

\* revoke_permission_override takes no caller: whoever makes the call, the
\* method sees the user and the action only
RbacRevokeOverride ==
    \E u \in RbacCallers, by \in RbacCallers, a \in RbacActions :
       RbacOverrideCall("revoke_permission_override", u, a, by,
                        RevokePermissionOverride(users, u, a))

RbacCheckPermission ==
    /\ \E u \in RbacCallers, agent \in RbacAgents, a \in RbacActions,
          rw \in BOOLEAN, ra \in BOOLEAN :
          ret' = [op |-> "check_permission", user_id |-> u, agent_type |-> agent,
                  action |-> a, require_write |-> rw, require_approve |-> ra,
                  result |-> CheckPermission(users, u, agent, a, rw, ra)]
    /\ UNCHANGED <<gate_vars, engine_vars, orch_vars, conc_vars, bias_vars>>

RbacCheckPatientAccess ==
    /\ \E u \in RbacCallers, t \in AccessTypes :
          ret' = [op |-> "check_patient_access", user_id |-> u, access_type |-> t,
                  result |-> CheckPatientAccess(users, u, t)]
    /\ UNCHANGED <<gate_vars, engine_vars, orch_vars, conc_vars, bias_vars>>

NextRbac ==
    \/ RbacRegisterUser
    \/ RbacDeactivateUser
    \/ RbacActivateUser
    \/ RbacGrantOverride
    \/ RbacRevokeOverride
    \/ RbacCheckPermission
    \/ RbacCheckPatientAccess

SpecRbac == Init /\ [][NextRbac]_vars

(* --------------------------- OrchestratorAgent ------------------------- *)

\* the domain agents registered with the orchestrator in the model
OrchAgents == {"MEDICATION", "BILLING"}

\* target_agent values of a routed request: the registrable types and a
\* string that is no AgentType
TargetAgents == OrchAgents \cup {"PHARMACY"}

\* register_agent: a registered agent starts active
OrchRegisterAgent ==
    /\ \E t \in OrchAgents :
          /\ t \notin DOMAIN registered_agents
          /\ registered_agents' =
                [a \in DOMAIN registered_agents \cup {t} |->
                    IF a = t THEN TRUE ELSE registered_agents[a]]
    /\ ret' = [op |-> "register_agent"]
    /\ UNCHANGED <<gate_vars, engine_vars, dispatches, workflow_states, conc_vars,
                   bias_vars>>

\* BaseAgent.deactivate / BaseAgent.activate on a registered agent
OrchSetAgentActive ==
    /\ \E t \in DOMAIN registered_agents, flag \in BOOLEAN :
          /\ registered_agents[t] # flag
          /\ registered_agents' = [registered_agents EXCEPT ![t] = flag]
    /\ ret' = [op |-> "set_agent_active"]
    /\ UNCHANGED <<gate_vars, engine_vars, dispatches, workflow_states, conc_vars,
                   bias_vars>>

\* _route_request: validation, then the domain agent's process, which
\* creates its own action and returns success or failure
RouteRequest(regs, ds, target_agent, target_action, id, agent_success) ==
    IF target_agent \notin AgentTypes
    THEN [dispatches |-> ds, success |-> FALSE, error |-> "Invalid agent type"]
    ELSE IF target_agent \notin DOMAIN regs
    THEN [dispatches |-> ds, success |-> FALSE, error |-> "Agent not registered"]
    ELSE IF ~regs[target_agent]
    THEN [dispatches |-> ds, success |-> FALSE, error |-> "Agent is inactive"]
    ELSE [dispatches |-> Append(ds, [agent_type |-> target_agent,
                                     action_type |-> target_action,
                                     action_id |-> id,
                                     success |-> agent_success]),
          success |-> agent_success, error |-> None]

OrchRouteRequest ==
    /\ action_count < MaxActions
    /\ \E ta \in TargetAgents, t \in ActionTypes, ok \in BOOLEAN :
          LET r == RouteRequest(registered_agents, dispatches, ta, t,
                                action_count + 1, ok)
          IN  /\ dispatches' = r.dispatches
              /\ ret' = [op |-> "route_request", success |-> r.success,
                         target_agent |-> ta, error |-> r.error]
    /\ action_count' = action_count + 1
    /\ UNCHANGED <<rules, pending_approvals, rule_ops, engine_vars,
                   registered_agents, workflow_states, conc_vars, bias_vars>>

\* _enforce_governance: the only orchestrator call into process_action
OrchEnforceGovernance ==
    /\ EngineProcessAction
    /\ UNCHANGED orch_vars

\* _approve_action and _reject_action: process_approval with approved set
OrchDecideAction ==
    /\ EngineProcessApproval
    /\ UNCHANGED orch_vars

\* _coordinate_workflow, lines 181-210: the loop from step i (1-based here;
\* the indices kept in completed_steps and failed_at_step are the code's
\* 0-based ones). oks[i] is what the domain agent of step i answers if it is
\* reached, raises[i] whether that agent raises an exception instead of
\* answering: the exception leaves _route_request and _coordinate_workflow at
\* the await, before anything is noted for the step.
\* A step's "required" is <<b>> or << >> (key absent).
StepRequiredNever(step) == FALSE

StepRequired(step) == IF step.required = << >> THEN TRUE ELSE step.required[1]

\* _route_request, lines 122-135: the step gets as far as the agent's process
AgentReached(regs, target_agent) ==
    /\ target_agent \in AgentTypes
    /\ target_agent \in DOMAIN regs
    /\ regs[target_agent]

RECURSIVE RunWorkflowSteps(_, _, _, _, _, _)
RunWorkflowSteps(regs, ds, wf, i, oks, raises) ==
    IF i > Len(wf.steps)
    THEN [workflow   |-> [wf EXCEPT !.status = "COMPLETED"],
          dispatches |-> ds,
          raised     |-> FALSE,
          ret        |-> [success         |-> TRUE,
                          total_steps     |-> Len(wf.steps),
                          completed_steps |-> Len(wf.completed_steps)]]
    ELSE IF AgentReached(regs, wf.steps[i].agent) /\ raises[i]
    THEN [workflow   |-> wf,
          dispatches |-> ds,
          raised     |-> TRUE,
          ret        |-> [success |-> FALSE, error |-> "exception"]]
    ELSE
      LET step  == wf.steps[i]
          route == RouteRequest(regs, ds, step.agent, step.action, Len(ds) + 1, oks[i])
          noted == [wf EXCEPT !.results = Append(@, [success |-> route.success,
                                                     error   |-> route.error]),
                              !.current_step = i]
      IN  IF route.success
          THEN RunWorkflowSteps(regs, route.dispatches,
                                [noted EXCEPT !.completed_steps = Append(@, i - 1)],
                                i + 1, oks, raises)
          ELSE IF StepRequired(step)
          THEN [workflow   |-> [noted EXCEPT !.status = "FAILED"],
                dispatches |-> route.dispatches,
                raised     |-> FALSE,
                ret        |-> [success        |-> FALSE,
                                failed_at_step |-> i - 1,
                                error          |-> route.error]]
          ELSE RunWorkflowSteps(regs, route.dispatches, noted, i + 1, oks, raises)

\* _coordinate_workflow: a call with no steps creates no workflow state
CoordinateWorkflow(regs, ds, wfs, workflow_name, workflow_steps, oks, raises) ==
    IF workflow_steps = << >>
    THEN [workflow_states |-> wfs, dispatches |-> ds, raised |-> FALSE,
          ret |-> [success |-> FALSE, error |-> "Missing workflow_name or steps"]]
    ELSE
      LET fresh == [name            |-> workflow_name,
                    status          |-> "IN_PROGRESS",
                    steps           |-> workflow_steps,
                    completed_steps |-> << >>,
                    current_step    |-> 0,
                    results         |-> << >>]
          run   == RunWorkflowSteps(regs, ds, fresh, 1, oks, raises)
      IN  [workflow_states |-> Append(wfs, run.workflow),
           dispatches      |-> run.dispatches,
           raised          |-> run.raised,
           ret             |-> run.ret]

MaxSteps == 3

MaxWorkflows == 1

\* the steps of a workflow: any target agent, required set, cleared or left out
WorkflowStepChoices ==
    [agent : TargetAgents, action : {"medication_change"},
     required : {<< >>, <<TRUE>>, <<FALSE>>}]

StepLists == UNION {[1..n -> WorkflowStepChoices] : n \in 0..MaxSteps}

\* process("coordinate_workflow", ...) with domain agents that answer;
\* workflows started in different seconds have different workflow ids
OrchCoordinateWorkflow ==
    /\ Len(workflow_states) < MaxWorkflows
    /\ \E steps \in StepLists, oks \in [1..MaxSteps -> BOOLEAN] :
          LET c == CoordinateWorkflow(registered_agents, dispatches, workflow_states,
                                      "admission", steps, oks,
                                      [i \in 1..MaxSteps |-> FALSE])
          IN  /\ workflow_states' = c.workflow_states
              /\ dispatches' = c.dispatches
              /\ ret' = [op |-> "coordinate_workflow", steps |-> steps,
                         oks |-> oks, ret |-> c.ret]
    /\ UNCHANGED <<gate_vars, engine_vars, registered_agents, conc_vars, bias_vars>>

NextFlow == OrchRegisterAgent \/ OrchSetAgentActive \/ OrchCoordinateWorkflow

SpecFlow == Init /\ [][NextFlow]_vars

\* steps of the workflows whose agents may also raise
MaxProcessSteps == 2

\* what the agent of a step does when it is reached
AgentAnswers == {"ok", "fail", "raise"}

\* OrchestratorAgent.process, lines 76-111: the response made of the
\* handler's result, or of the exception caught at line 104
OrchestratorProcess(c) ==
    IF c.raised
    THEN [success |-> FALSE, status |-> "FAILED", error |-> c.ret.error]
    ELSE [success |-> c.ret.success,
          status  |-> IF c.ret.success THEN "COMPLETED" ELSE "FAILED",
          error   |-> None]

\* process("coordinate_workflow", ...) with domain agents that answer or raise
OrchProcessWorkflow ==
    /\ Len(workflow_states) < MaxWorkflows
    /\ \E n \in 0..MaxProcessSteps :
       \E steps \in [1..n -> WorkflowStepChoices],
          answers \in [1..MaxProcessSteps -> AgentAnswers] :
          LET c == CoordinateWorkflow(registered_agents, dispatches, workflow_states,
                      "admission", steps,
                      [i \in 1..MaxProcessSteps |-> answers[i] = "ok"],
                      [i \in 1..MaxProcessSteps |-> answers[i] = "raise"])
          IN  /\ workflow_states' = c.workflow_states
              /\ dispatches' = c.dispatches
              /\ ret' = [op |-> "process", action_type |-> "coordinate_workflow",
                         steps |-> steps, answers |-> answers,
                         response |-> OrchestratorProcess(c)]
    /\ UNCHANGED <<gate_vars, engine_vars, registered_agents, conc_vars, bias_vars>>

NextProcess == OrchRegisterAgent \/ OrchSetAgentActive \/ OrchProcessWorkflow

SpecProcess == Init /\ [][NextProcess]_vars

\* process("reject_action", ...) with request_id and rejector_id given
OrchRejectAction ==
    /\ \E rid \in 1..(Len(pending_approvals) + 1), by \in Callers,
          h \in OutcomesFor(handlers) :
          Becomes(RejectAction(EngineState, rid, by, h))
    /\ UNCHANGED <<rules, rule_ops, action_count, user_ops, handlers,
                   pre_execution_hooks, post_execution_hooks, orch_vars, conc_vars,
                   bias_vars>>

NextReject == OrchEnforceGovernance \/ OrchDecideAction \/ OrchRejectAction

SpecReject == Init /\ [][NextReject]_vars

NextOrch ==
    \/ OrchRegisterAgent
    \/ OrchSetAgentActive
    \/ OrchRouteRequest
    \/ OrchEnforceGovernance
    \/ OrchDecideAction

SpecOrch == Init /\ [][NextOrch]_vars

(* ----------------------- BiasMonitor used on its own ------------------- *)

MaxRecordOps == 1

MaxMetrics == 1

\* the monitored dimension and the groups recorded for it; None is a record
\* whose demographics lack the dimension
BiasDimension == "language"

BiasGroups == {"en", "es"}

\* the outcome and outcome value of a recorded sample
SampleKinds ==
    {[outcome |-> "POSITIVE", outcome_value |-> <<40>>],
     [outcome |-> "POSITIVE", outcome_value |-> <<50>>],
     [outcome |-> "POSITIVE", outcome_value |-> <<90>>],
     [outcome |-> "POSITIVE", outcome_value |-> << >>],
     [outcome |-> "NEGATIVE", outcome_value |-> << >>]}

\* sizes of the two groups recorded before the analysis starts
GroupSizes == 4..6

Demographics(group) == [d \in {BiasDimension} |-> group]

\* n record_action_outcome calls for one group with one kind of sample
RECURSIVE RecordMany(_, _, _, _, _)
RecordMany(records, key, group, kind, n) ==
    IF n = 0 THEN records
    ELSE RecordMany(RecordActionOutcome(records, key, Demographics(group),
                                        kind.outcome, kind.outcome_value),
                    key, group, kind, n - 1)

BiasMonitorState ==
    [action_records |-> action_records, metrics |-> metrics,
     compliance_events |-> compliance_events,
     disparate_impact_threshold |-> DisparateImpactThresholdDefault]

\* a monitor that has recorded the samples of two groups under one key
InitBias ==
    /\ FreshGovernance
    /\ users = EmptyMap
    /\ metrics = << >>
    /\ compliance_events = << >>
    /\ record_ops = 0
    /\ \E n1 \in GroupSizes, n2 \in GroupSizes, k1 \in SampleKinds, k2 \in SampleKinds :
          LET key == BiasKey("MEDICATION", "medication_change")
              empty == [k \in BiasKeys |-> << >>]
          IN  action_records = RecordMany(RecordMany(empty, key, "en", k1, n1),
                                          key, "es", k2, n2)

BiasRecordActionOutcome ==
    /\ record_ops < MaxRecordOps
    /\ \E a \in BiasAgents, t \in BiasActions, g \in BiasGroups \cup {None},
          k \in SampleKinds :
          action_records' = RecordActionOutcome(action_records, BiasKey(a, t),
                               Demographics(g), k.outcome, k.outcome_value)
    /\ record_ops' = record_ops + 1
    /\ ret' = [op |-> "record_action_outcome"]
    /\ UNCHANGED <<gate_vars, engine_vars, orch_vars, conc_vars, metrics,
                   compliance_events>>

BiasCalculateDisparateImpact ==
    /\ Len(metrics) < MaxMetrics
    /\ \E a \in BiasAgents, t \in BiasActions, p \in BiasGroups, r \in BiasGroups,
          rounding \in {-1, 0, 1} :
          LET c == CalculateDisparateImpact(BiasMonitorState, a, t, BiasDimension,
                                            p, r, rounding)
          IN  /\ metrics' = c.metrics
              /\ compliance_events' = c.compliance_events
              /\ ret' = [op |-> "calculate_disparate_impact", agent_type |-> a,
                         action_type |-> t, protected_group |-> p,
                         reference_group |-> r, ret |-> c.ret]
    /\ UNCHANGED <<gate_vars, engine_vars, orch_vars, conc_vars, action_records,
                   record_ops>>

NextBias == BiasRecordActionOutcome \/ BiasCalculateDisparateImpact

SpecBias == InitBias /\ [][NextBias]_vars

(* ----------- BiasMonitor: full analysis and compliance events ---------- *)

\* list(AgentType) restricted to the agents with records: MEDICATION comes
\* before BILLING in the enumeration
BiasAgentOrder == <<"MEDICATION", "BILLING">>

BiasActionOrder == <<"medication_change">>

\* the status strings given to update_compliance_event: the three of the
\* lifecycle and one outside it
RemediationStatuses == {"PENDING", "IN_PROGRESS", "RESOLVED", "REOPENED"}

BiasRunFullBiasAnalysis ==
    /\ Len(metrics) < MaxMetrics
    /\ \E agent_type \in BiasAgents \cup {None}, rounding \in {-1, 0, 1} :
          LET agents == IF agent_type = None THEN BiasAgentOrder ELSE <<agent_type>>
              r == RunFullBiasAnalysis(BiasMonitorState, agents, BiasActionOrder, rounding)
          IN  /\ metrics' = r.metrics
              /\ compliance_events' = r.compliance_events
              /\ ret' = [op |-> "run_full_bias_analysis", agent_type |-> agent_type,
                         ret |-> r.ret]
    /\ UNCHANGED <<gate_vars, engine_vars, orch_vars, conc_vars, action_records,
                   record_ops>>

BiasUpdateComplianceEvent ==
    /\ \E event_id \in 1..(Len(compliance_events) + 1), status \in RemediationStatuses :
          LET u == UpdateComplianceEvent(compliance_events, event_id, status)
          IN  /\ compliance_events' = u.compliance_events
              /\ ret' = [op |-> "update_compliance_event", event_id |-> event_id,
                         ret |-> u.ret]
    /\ UNCHANGED <<gate_vars, engine_vars, orch_vars, conc_vars, action_records,
                   metrics, record_ops>>

NextMonitor ==
    \/ BiasRecordActionOutcome
    \/ BiasRunFullBiasAnalysis
    \/ BiasUpdateComplianceEvent

SpecMonitor == InitBias /\ [][NextMonitor]_vars

(* ======================= RiskGateManager claims ======================== *)

\* a step that is a process_approval call on a stored request
IsApprovalStep(rid, approved) ==
    /\ ret'.op = "process_approval"
    /\ ret'.request_id = rid
    /\ ret'.approved = approved
    /\ pending_approvals' # pending_approvals

\* C2: once a rejection is recorded on a request that had fewer approvals than
\* required, the request is REJECTED and stays REJECTED under every later
\* process_approval call.
C2_RejectionIsTerminal ==
    [][\A rid \in 1..Len(pending_approvals) :
          (/\ pending_approvals[rid].status = "REJECTED"
           /\ pending_approvals[rid].current_approvals
                 < pending_approvals[rid].required_approvers)
             => pending_approvals'[rid].status = "REJECTED"]_vars

\* C3: an approve call on a request that is already APPROVED changes nothing
\* of the request and does not report "fully approved" again.
C3_ApproveOnApprovedIsNoOp ==
    [][\A rid \in 1..Len(pending_approvals) :
          (/\ ret'.op = "process_approval"
           /\ ret'.request_id = rid
           /\ ret'.approved
           /\ pending_approvals[rid].status = "APPROVED")
             => /\ pending_approvals'[rid] = pending_approvals[rid]
                /\ ret'.ret = FALSE]_vars

\* C4: an approve call on a PENDING request with required_approvers = N counts
\* one approval; it returns false and leaves the request PENDING while the
\* count is below N, and the call that records the N-th approval returns true
\* and sets the status APPROVED.
C4_ApprovalConsensus ==
    [][\A rid \in 1..Len(pending_approvals) :
          (IsApprovalStep(rid, TRUE) /\ pending_approvals[rid].status = "PENDING")
             => LET old == pending_approvals[rid]
                    new == pending_approvals'[rid]
                IN  /\ new.current_approvals = old.current_approvals + 1
                    /\ new.current_approvals <= old.required_approvers
                    /\ new.current_approvals < old.required_approvers
                          => (ret'.ret = FALSE /\ new.status = "PENDING")
                    /\ new.current_approvals = old.required_approvers
                          => (ret'.ret = TRUE /\ new.status = "APPROVED")]_vars

\* C4 witness: the second approval of a request that needs two has just been
\* recorded, was reported as fully approved and left the request APPROVED.
C4_Witness ==
    /\ ret.op = "process_approval" /\ ret.approved /\ ret.ret = TRUE
    /\ ret.request_id \in 1..Len(pending_approvals)
    /\ pending_approvals[ret.request_id].required_approvers = 2
    /\ pending_approvals[ret.request_id].current_approvals = 2
    /\ pending_approvals[ret.request_id].rejected_by = None
    /\ pending_approvals[ret.request_id].status = "APPROVED"

\* C5: every approval request has current_approvals <= required_approvers and
\* current_approvals = length of approved_by.
C5_CounterNeverOvershoots ==
    \A rid \in 1..Len(pending_approvals) :
       /\ pending_approvals[rid].current_approvals
             <= pending_approvals[rid].required_approvers
       /\ pending_approvals[rid].current_approvals
             = Len(pending_approvals[rid].approved_by)

\* C6: in every rule configuration reachable through add_rule / update_rule,
\* evaluate_gate on an action of risk level CRITICAL, at any confidence,
\* returns can_proceed = false and a request stored in pending_approvals.
C6_CriticalAlwaysGated ==
    (ret.op = "evaluate_gate" /\ ret.action.risk_level = "CRITICAL")
       => /\ ret.can_proceed = FALSE
          /\ ret.request_id \in 1..Len(pending_approvals)
          /\ pending_approvals[ret.request_id].action_id = ret.action.action_id
          /\ pending_approvals[ret.request_id].status = "PENDING"

\* C6 witness: a CRITICAL action was gated although the rule applied to it
\* (after an administrative change) neither requires approval nor has a
\* threshold above the action's confidence.
C6_Witness ==
    /\ ret.op = "evaluate_gate" /\ ret.action.risk_level = "CRITICAL"
    /\ rules # DefaultRules
    /\ ~GetRuleForRiskLevel(rules, "CRITICAL").requires_approval
    /\ ret.action.confidence_score
          >= GetRuleForRiskLevel(rules, "CRITICAL").confidence_threshold
    /\ ret.request_id \in 1..Len(pending_approvals)

\* C7: under the default rules evaluate_gate lets an action proceed, with no
\* request, status APPROVED and pending_approvals unchanged, exactly when its
\* risk level is LOW with confidence >= 0.7 or MEDIUM with confidence >= 0.85;
\* otherwise it returns false with exactly one new request and the status
\* AWAITING_APPROVAL.
C7_DefaultGateDecision ==
    [][(ret'.op = "evaluate_gate" /\ action_count' = action_count + 1
        /\ rules = DefaultRules)
          => LET a == ret'.action
                 open == \/ (a.risk_level = "LOW" /\ a.confidence_score >= 70)
                         \/ (a.risk_level = "MEDIUM" /\ a.confidence_score >= 85)
             IN  /\ ret'.can_proceed = open
                 /\ open => /\ ret'.request_id = 0
                            /\ ret'.status = "APPROVED"
                            /\ pending_approvals' = pending_approvals
                 /\ ~open => /\ ret'.status = "AWAITING_APPROVAL"
                             /\ Len(pending_approvals') = Len(pending_approvals) + 1
                             /\ SubSeq(pending_approvals', 1, Len(pending_approvals))
                                   = pending_approvals
                             /\ ret'.request_id = Len(pending_approvals')
                             /\ pending_approvals'[ret'.request_id].action_id
                                   = a.action_id
                             /\ pending_approvals'[ret'.request_id].status
                                   = "PENDING"]_vars

\* C7 witness: a MEDIUM action with confidence exactly at the 0.85 threshold
\* went through the gate.
C7_Witness ==
    /\ ret.op = "evaluate_gate"
    /\ ret.action.risk_level = "MEDIUM" /\ ret.action.confidence_score = 85
    /\ ret.can_proceed /\ ret.status = "APPROVED"
    /\ pending_approvals = << >>

\* the request evaluate_gate returned for an action whose risk level is the
\* one classify_risk gives its type has these approver count and priority
GatedAs(required, priority) ==
    /\ ret.can_proceed = FALSE
    /\ ret.request_id \in 1..Len(pending_approvals)
    /\ pending_approvals[ret.request_id].required_approvers = required
    /\ pending_approvals[ret.request_id].priority = priority

IsProcessActionStep == ret'.op = "process_action" /\ action_count' = action_count + 1

\* C1: every call of process_action, whichever branch it takes, adds exactly
\* one entry to the audit trail, and the entry's status is the action status
\* returned to the caller.
C1_OneAuditEntryPerCall ==
    [][IsProcessActionStep
          => /\ Len(audit_logs') = Len(audit_logs) + 1
             /\ SubSeq(audit_logs', 1, Len(audit_logs)) = audit_logs
             /\ audit_logs'[Len(audit_logs')].action_id = ret'.action_id
             /\ audit_logs'[Len(audit_logs')].status = ret'.status]_vars

\* the account is registered and active
ActiveUser(a) == a \in DOMAIN users /\ users[a].is_active

\* the account's role has a permission record with approve access for the
\* agent type of the request
RoleCanApprove(a, rid) ==
    /\ rid \in 1..Len(pending_approvals)
    /\ ActiveUser(a)
    /\ RoleApproveAccess(users[a].role)
    /\ pending_approvals[rid].agent_type \in RoleAgents(users[a].role)

\* the account holds a permission override for the action named "approve"
HoldsApproveOverride(a, rid) ==
    /\ rid \in 1..Len(pending_approvals)
    /\ ActiveUser(a)
    /\ "approve" \in Range(users[a].permissions_override)

\* a step that is a call of GovernanceEngine.process_approval which reported
\* success, changed an approval request or ran _execute_action
ApprovalTookEffect ==
    /\ ret'.op = "process_approval"
    /\ \/ pending_approvals' # pending_approvals
       \/ execs' # execs
       \/ ret'.success

\* C9 as stated: process_approval changes a request, reports success or
\* executes the action only for a registered, active approver whose role has
\* approve-capability for the request's agent type.
C9_OnlyApproverRoleDecides ==
    [][ApprovalTookEffect => RoleCanApprove(ret'.approver_id, ret'.request_id)]_vars

\* C9 amended: process_approval changes a request, reports success or
\* executes the action only for a registered, active approver whose role has
\* approve-capability for the request's agent type or who holds a permission
\* override for the action "approve"; for any other approver, or an unknown
\* request id, it returns success = false, changes no request and runs no
\* handler.
C9_OnlyAuthorizedApproverDecides ==
    [][ApprovalTookEffect
          => \/ RoleCanApprove(ret'.approver_id, ret'.request_id)
             \/ HoldsApproveOverride(ret'.approver_id, ret'.request_id)]_vars

\* C9 witness: billing staff holding an "approve" override has approved a
\* request, and the action was executed.
C9_Witness ==
    /\ ret.op = "process_approval" /\ ret.approved
    /\ ret.approver_id = "u_bill"
    /\ "approve" \in Range(users["u_bill"].permissions_override)
    /\ ret.request_id \in 1..Len(pending_approvals)
    /\ pending_approvals[ret.request_id].approved_by = <<"u_bill">>
    /\ pending_approvals[ret.request_id].status = "APPROVED"
    /\ Len(execs) = 1 /\ execs[1].via = "process_approval"

\* C10: every request the orchestrator dispatched to a domain agent is an
\* action the engine's process_action approved before.
C10_DispatchAfterEngineApproval ==
    \A i \in 1..Len(dispatches) :
       \E j \in 1..Len(audit_logs) :
          /\ audit_logs[j].action_id = dispatches[i].action_id
          /\ audit_logs[j].status \in {"APPROVED", "COMPLETED", "FAILED"}

(* ======================== action state machine ========================= *)

\* the last call was a process_approval that executed the approved action
ExecutedByApproval == ret.op = "process_approval" /\ ret.action_id # 0

\* C11: after process_action returns the action's status is REJECTED,
\* ESCALATED, AWAITING_APPROVAL, COMPLETED or FAILED, never PENDING or
\* APPROVED; after process_approval executed a fully approved request the
\* action's status is COMPLETED or FAILED.
C11_ActionStatusMachine ==
    /\ ret.op = "process_action"
          => ret.status \in {"REJECTED", "ESCALATED", "AWAITING_APPROVAL",
                             "COMPLETED", "FAILED"}
    /\ ExecutedByApproval => ret.status \in {"COMPLETED", "FAILED"}

(* ============================ RBAC claims ============================== *)

\* action names passed to check_permission in the claims: the override
\* names, listed actions of several roles and an action no role lists
CheckedActions ==
    RbacActions \cup {"view_patient", "delete_all"}

\* C12: for a deactivated user check_permission and check_patient_access
\* return allowed = false for every agent type, action, flag combination and
\* access type, whatever the role and the overrides held, until the user is
\* activated again.
C12_DeactivatedAlwaysDenied ==
    /\ \A u \in DOMAIN users :
          ~users[u].is_active
             => /\ \A agent \in AgentTypes, a \in CheckedActions,
                      rw \in BOOLEAN, ra \in BOOLEAN :
                      ~CheckPermission(users, u, agent, a, rw, ra).allowed
                /\ \A t \in AccessTypes : ~CheckPatientAccess(users, u, t).allowed
    /\ (/\ ret.op \in {"check_permission", "check_patient_access"}
        /\ ret.user_id \in DOMAIN users
        /\ ~users[ret.user_id].is_active)
          => ~ret.result.allowed

\* C12 witness: a deactivated clinical director who holds an override for
\* "approve" was just refused that very action.
C12_Witness ==
    /\ ret.op = "check_permission" /\ ret.user_id = "u_dir" /\ ret.action = "approve"
    /\ ~users["u_dir"].is_active
    /\ "approve" \in Range(users["u_dir"].permissions_override)
    /\ ~ret.result.allowed

\* the (false, reason) pair of a denial
IsDenial(r) == r.allowed = FALSE /\ r.reason \notin {None, ""}

\* C13: check_permission returns (false, reason) for an unknown user id, and
\* for an active user without an override for the action whose role has no
\* permission record for the agent type (BILLING_STAFF on MEDICATION), or
\* whose record lacks the required write or approve capability, or does not
\* list the action and has no wildcard.
C13_CheckPermissionFailsClosed ==
    \A u \in RbacCallers, agent \in AgentTypes, a \in CheckedActions,
       rw \in BOOLEAN, ra \in BOOLEAN :
       LET role == users[u].role
           plain == /\ users[u].is_active
                    /\ a \notin Range(users[u].permissions_override)
           closed == \/ role = "BILLING_STAFF" /\ agent = "MEDICATION"
                     \/ role = "BILLING_STAFF" /\ a \notin
                           {"view_claims", "submit_claim", "process_payment",
                            "generate_invoice", "view_documentation"}
                     \/ role = "FAMILY_PORTAL" /\ rw
                     \/ role \notin {"SYSTEM_ADMIN", "CLINICAL_DIRECTOR"} /\ ra
                     \/ agent \notin RoleAgents(role)
                     \/ rw /\ ~RoleWriteAccess(role)
                     \/ ra /\ ~RoleApproveAccess(role)
                     \/ /\ "*" \notin RoleAllowedActions(role)
                        /\ a \notin RoleAllowedActions(role)
       IN  (u \notin DOMAIN users \/ (plain /\ closed))
              => IsDenial(CheckPermission(users, u, agent, a, rw, ra))

\* C13 witness: active billing staff without overrides was refused write
\* access on the MEDICATION agent.
C13_Witness ==
    /\ ret.op = "check_permission" /\ ret.user_id = "u_bill"
    /\ ret.agent_type = "MEDICATION" /\ ret.require_write
    /\ users["u_bill"].is_active /\ users["u_bill"].permissions_override = << >>
    /\ ret.result = Denied("No permission defined")

(* ====================== process_action pipeline ======================== *)

\* the entry a store gained in the step, when it gained exactly one
Gained(before, after) ==
    Len(after) = Len(before) + 1 /\ SubSeq(after, 1, Len(before)) = before

\* C14: when the permission check denies, or the patient-access check denies
\* for an action carrying a patient id, process_action returns success =
\* false with status REJECTED, records the denial (an audit entry for a
\* permission denial, an AccessLog with success = false and the reason for a
\* patient-access denial), creates no approval request, triggers no
\* escalation and runs no handler.
C14_DenialIsRecordedAndInert ==
    [][IsProcessActionStep
          => LET u == ret'.user_id
                 perm == CheckPermission(users, u, ret'.agent_type,
                                         ret'.action_type, TRUE, FALSE)
                 access == CheckPatientAccess(users, u, "WRITE")
                 perm_denied == ~perm.allowed
                 access_denied ==
                    perm.allowed /\ ret'.patient_id # None /\ ~access.allowed
             IN  /\ (perm_denied \/ access_denied)
                       => /\ ret'.success = FALSE
                          /\ ret'.status = "REJECTED"
                          /\ pending_approvals' = pending_approvals
                          /\ escalations' = escalations
                          /\ escalation_logs' = escalation_logs
                          /\ execs' = execs
                 /\ perm_denied
                       => /\ Gained(audit_logs, audit_logs')
                          /\ audit_logs'[Len(audit_logs')].action_id = ret'.action_id
                          /\ audit_logs'[Len(audit_logs')].user_id = u
                          /\ audit_logs'[Len(audit_logs')].status = "REJECTED"
                 /\ access_denied
                       => /\ Gained(access_logs, access_logs')
                          /\ access_logs'[Len(access_logs')].user_id = u
                          /\ access_logs'[Len(access_logs')].patient_id
                                = ret'.patient_id
                          /\ access_logs'[Len(access_logs')].success = FALSE
                          /\ access_logs'[Len(access_logs')].reason = access.reason]_vars

\* C14 witness: billing staff submitted a claim for a patient, was refused
\* WRITE access to the patient, and the refusal is in the access log.
C14_Witness ==
    /\ ret.op = "process_action" /\ ret.user_id = "u_bill"
    /\ ret.action_type = "submit_claim" /\ ret.patient_id = "p1"
    /\ ret.success = FALSE /\ ret.status = "REJECTED"
    /\ Len(access_logs) = 1
    /\ access_logs[1].success = FALSE
    /\ access_logs[1].reason = "Billing staff limited to billing-related access"
    /\ pending_approvals = << >> /\ escalations = << >> /\ execs = << >>

\* C15: for an action that passes the gate in process_action, with no handler
\* registered for (agent type, action type) the response is a success and the
\* action and its audit entry end COMPLETED with outcome SUCCESS; when the
\* handler returns a failure or raises, the response has success = false and
\* the action and its audit entry end FAILED, the audit outcome being the
\* handler's error message.
C15_ExecutionOutcomeAudited ==
    [][(IsProcessActionStep /\ Gained(execs, execs'))
          => LET e == execs'[Len(execs')]
                 log == audit_logs'[Len(audit_logs')]
                 registered == <<ret'.agent_type, ret'.action_type>> \in handlers
             IN  /\ Gained(audit_logs, audit_logs')
                 /\ log.action_id = ret'.action_id
                 /\ e.handler = registered
                 /\ ~registered
                       => /\ ret'.success = TRUE
                          /\ ret'.status = "COMPLETED"
                          /\ log.status = "COMPLETED"
                          /\ log.outcome = "SUCCESS"
                 /\ (registered /\ ~e.success)
                       => /\ ret'.success = FALSE
                          /\ ret'.status = "FAILED"
                          /\ log.status = "FAILED"
                          /\ e.error \in {"handler_error", "exception"}
                          /\ log.outcome = e.error]_vars

\* C15 witness: the handler registered for submit_claim raised; the call
\* returned a failure and the audit entry is FAILED with the exception text.
C15_Witness ==
    /\ ret.op = "process_action" /\ ret.action_type = "submit_claim"
    /\ ret.success = FALSE /\ ret.status = "FAILED"
    /\ Len(execs) = 1 /\ execs[1].handler /\ execs[1].error = "exception"
    /\ Len(audit_logs) = 1
    /\ audit_logs[1].status = "FAILED" /\ audit_logs[1].outcome = "exception"

(* ===================== approval request life cycle ===================== *)

\* C16: a request whose status is APPROVED is not changed by a later
\* process_approval(approved = false): it is not set to REJECTED and its
\* rejected_by stays unset.
C16_ApprovedIsTerminal ==
    [][\A rid \in 1..Len(pending_approvals) :
          (/\ ret'.op = "process_approval"
           /\ ret'.request_id = rid
           /\ ~ret'.approved
           /\ pending_approvals[rid].status = "APPROVED")
             => /\ pending_approvals'[rid].status = "APPROVED"
                /\ pending_approvals'[rid].rejected_by = None
                /\ pending_approvals'[rid] = pending_approvals[rid]]_vars

\* C17: a request with required_approvers = N is APPROVED only when N distinct
\* approver ids have approved it, and approved_by never holds an id twice.
C17_DistinctApprovers ==
    \A rid \in 1..Len(pending_approvals) :
       LET r == pending_approvals[rid]
       IN  /\ r.status = "APPROVED"
                => Cardinality(Range(r.approved_by)) >= r.required_approvers
           /\ Cardinality(Range(r.approved_by)) = Len(r.approved_by)

(* ======================= concurrent approvals ========================== *)

\* the calls begun on the request
CallsOn(rid) == {i \in 1..Len(calls) : calls[i].request_id = rid}

\* exactly two calls were made on the request, both approvals, and both
\* have returned
TwoApprovalsReturned(rid) ==
    /\ Cardinality(CallsOn(rid)) = 2
    /\ \A i \in CallsOn(rid) : calls[i].approved /\ calls[i].pc = "done"

\* C18: interleaved process_approval calls on one request end as some serial
\* order of them would: two simultaneous approvals on a request needing two
\* leave current_approvals = 2 and status APPROVED with exactly one of them
\* reporting fully approved, and a concurrent rejection does not overwrite
\* an APPROVED status.
C18_ConcurrentApprovalsSerializable ==
    [][\A rid \in 1..Len(pending_approvals) :
          /\ (/\ TwoApprovalsReturned(rid)'
              /\ pending_approvals[rid].required_approvers = 2)
                => /\ pending_approvals'[rid].current_approvals = 2
                   /\ pending_approvals'[rid].status = "APPROVED"
                   /\ Cardinality({i \in CallsOn(rid)' : calls'[i].ret = TRUE}) = 1
          /\ (/\ pending_approvals[rid].status = "APPROVED"
              /\ \E i \in CallsOn(rid) : calls[i].pc = "reject" /\ calls'[i].pc = "done")
                => pending_approvals'[rid].status = "APPROVED"]_vars

(* ========================= audit trail claims ========================== *)

\* the audit store and its three indices are as they were
AuditStoreUntouched ==
    /\ audit_logs' = audit_logs
    /\ log_index_by_patient' = log_index_by_patient
    /\ log_index_by_agent' = log_index_by_agent
    /\ log_index_by_session' = log_index_by_session

\* C19: update_log_outcome and record_human_override with a log id that is
\* not in the audit store return false, create no entry and leave every entry
\* and every index unchanged; resolve_escalation with an unknown escalation id
\* returns false and changes nothing.
C19_UnknownIdChangesNothing ==
    [][/\ (/\ ret'.op \in {"update_log_outcome", "record_human_override"}
           /\ ~Found(audit_logs, ret'.log_id))
             => /\ ret'.ret = FALSE
                /\ AuditStoreUntouched
                /\ escalation_logs' = escalation_logs
       /\ (/\ ret'.op = "resolve_escalation"
           /\ ~Found(escalation_logs, ret'.escalation_id))
             => /\ ret'.ret = FALSE
                /\ escalation_logs' = escalation_logs
                /\ AuditStoreUntouched]_vars

\* C19 witness: with entries in the store, update_log_outcome was called with
\* an id that is not among them and returned false.
C19_Witness ==
    /\ ret.op = "update_log_outcome" /\ ret.ret = FALSE
    /\ Len(audit_logs) >= 1
    /\ ~Found(audit_logs, ret.log_id)
    /\ \A i \in 1..Len(audit_logs) : audit_logs[i].outcome = ""

\* how often the id is listed under the key
Occurrences(ix, key, id) ==
    IF key \in DOMAIN ix
    THEN Cardinality({j \in 1..Len(ix[key]) : ix[key][j] = id})
    ELSE 0

\* the index lists the id exactly once, under the key, when the entry has a
\* key, and nowhere when it has none
IndexedOnce(ix, key, id) ==
    /\ key # None => Occurrences(ix, key, id) = 1
    /\ \A k \in DOMAIN ix : k # key => Occurrences(ix, k, id) = 0

\* C20: a log id is in the primary store exactly when it is listed once in
\* the agent-type index under the entry's agent type, once in the patient
\* index under its patient id if it has one and once in the session index
\* under its session id if it has one; no index lists an id that is not in
\* the store.
C20_IndicesMatchStore ==
    /\ \A id \in 1..Len(audit_logs) :
          /\ audit_logs[id].log_id = id
          /\ Occurrences(log_index_by_agent, audit_logs[id].agent_type, id) = 1
          /\ IndexedOnce(log_index_by_agent, audit_logs[id].agent_type, id)
          /\ IndexedOnce(log_index_by_patient, audit_logs[id].patient_id, id)
          /\ IndexedOnce(log_index_by_session, audit_logs[id].session_id, id)
    /\ \A ix \in {log_index_by_agent, log_index_by_patient, log_index_by_session} :
          \A k \in DOMAIN ix : Range(ix[k]) \subseteq 1..Len(audit_logs)

\* C20 witness: two entries of one agent type and one session, the first
\* with a patient and the second without.
C20_Witness ==
    /\ Len(audit_logs) = 2
    /\ log_index_by_agent = [k \in {"MEDICATION"} |-> <<1, 2>>]
    /\ log_index_by_session = [k \in {"s1"} |-> <<1, 2>>]
    /\ log_index_by_patient = [k \in {"p1"} |-> <<1>>]
    /\ audit_logs[2].patient_id = None

(* ======================= escalation resolution ========================= *)

\* C21: once resolve_escalation has succeeded for an escalation, its resolved
\* flag stays true, its resolver id and resolution action are not changed by a
\* later resolve_escalation call, and it is never again among the pending
\* escalations.
C21_ResolutionIsFinal ==
    [][\A e \in 1..Len(escalation_logs) :
          escalation_logs[e].resolved
             => /\ escalation_logs'[e].resolved
                /\ escalation_logs'[e].resolved_by = escalation_logs[e].resolved_by
                /\ escalation_logs'[e].resolution_action
                      = escalation_logs[e].resolution_action
                /\ \A i \in 1..Len(GetPendingEscalations(escalation_logs')) :
                      GetPendingEscalations(escalation_logs')[i].escalation_id # e]_vars

(* ========================== BiasMonitor claims ========================= *)

IsCalculateStep == ret'.op = "calculate_disparate_impact"

\* the records of the key the last calculate_disparate_impact call named
CalculatedRecords == action_records[BiasKey(ret'.agent_type, ret'.action_type)]

\* how many of them belong to a group
GroupCount(group) ==
    Cardinality({i \in 1..Len(CalculatedRecords) :
                    CalculatedRecords[i].demographics[BiasDimension] = group})

\* what a sample counts for: its outcome value, or 1 / 0 by its outcome
SampleWorth(r) ==
    IF r.outcome_value # << >> THEN r.outcome_value[1]
    ELSE IF r.outcome = "POSITIVE" THEN 100 ELSE 0

\* the sum of what the samples of a group count for
GroupSum(group) ==
    SumSeq([i \in 1..Len(CalculatedRecords) |->
              IF CalculatedRecords[i].demographics[BiasDimension] = group
              THEN SampleWorth(CalculatedRecords[i]) ELSE 0])

\* C22: calculate_disparate_impact returns no metric, stores no BiasMetric
\* and creates no ComplianceEvent whenever the key has fewer than 10 samples
\* or a compared group has fewer than 5; it returns a metric only when both
\* minimums are met.
C22_MinimumSamples ==
    [][IsCalculateStep =>
          LET short == \/ Len(CalculatedRecords) < 10
                       \/ GroupCount(ret'.protected_group) < 5
                       \/ GroupCount(ret'.reference_group) < 5
          IN  /\ short => /\ ret'.ret = << >>
                          /\ metrics' = metrics
                          /\ compliance_events' = compliance_events
              /\ ret'.ret # << >> => ~short]_vars

\* a call refused for a group of 4 although the key holds 10 samples
C22_Witness ==
    /\ ret.op = "calculate_disparate_impact"
    /\ ret.ret = << >>
    /\ ret.protected_group # ret.reference_group
    /\ Len(action_records[BiasKey(ret.agent_type, ret.action_type)]) >= 10
    /\ metrics = << >>

\* C23: with enough samples in both groups, two zero means give the ratio
\* 1.0 with threshold_exceeded = false; a non-zero reference mean gives the
\* protected mean divided by the reference mean, a sample without outcome
\* value counting as 1 if its outcome is POSITIVE and as 0 otherwise.
C23_RatioOfMeans ==
    [][(IsCalculateStep /\ ret'.ret # << >>) =>
          LET m  == ret'.ret[1]
              sp == GroupSum(ret'.protected_group)
              np == GroupCount(ret'.protected_group)
              sr == GroupSum(ret'.reference_group)
              nr == GroupCount(ret'.reference_group)
          IN  /\ (sp = 0 /\ sr = 0) =>
                    /\ m.disparity_ratio = [num |-> 1, den |-> 1]
                    /\ ~m.threshold_exceeded
              /\ sr # 0 =>
                    /\ m.disparity_ratio.den # 0
                    /\ m.disparity_ratio.num * (sr * np)
                          = m.disparity_ratio.den * (sp * nr)]_vars

\* a metric for two groups whose samples all count as 0
C23_Witness ==
    /\ ret.op = "calculate_disparate_impact"
    /\ ret.ret # << >>
    /\ ret.ret[1].observed_rate.num = 0
    /\ ret.ret[1].baseline_rate.num = 0
    /\ ret.ret[1].disparity_ratio = [num |-> 1, den |-> 1]

\* a metric whose reference mean is not 0 and whose protected group holds a
\* POSITIVE sample without outcome value
C23_WitnessUnvalued ==
    /\ ret.op = "calculate_disparate_impact"
    /\ ret.ret # << >>
    /\ ret.ret[1].baseline_rate.num # 0
    /\ \E i \in 1..Len(action_records[BiasKey(ret.agent_type, ret.action_type)]) :
          LET r == action_records[BiasKey(ret.agent_type, ret.action_type)][i]
          IN  /\ r.demographics[BiasDimension] = ret.protected_group
              /\ r.outcome_value = << >> /\ r.outcome = "POSITIVE"

\* the float ratio of a metric lies below the threshold
RatioBelowThreshold(m) ==
    \/ m.disparity_ratio.num * 100
          < DisparateImpactThresholdDefault * m.disparity_ratio.den
    \/ /\ m.disparity_ratio.den # 0
       /\ m.disparity_ratio.num * 100
             = DisparateImpactThresholdDefault * m.disparity_ratio.den
       /\ m.rounding < 0

\* C24: a call that returns a metric sets threshold_exceeded exactly when
\* the ratio is below the threshold, and then creates exactly one
\* ComplianceEvent, with severity WARNING and remediation status PENDING;
\* otherwise it creates none.
C24_EventIffBelowThreshold ==
    [][(IsCalculateStep /\ ret'.ret # << >>) =>
          LET m == ret'.ret[1]
          IN  /\ m.threshold_exceeded <=> RatioBelowThreshold(m)
              /\ m.threshold_exceeded =>
                    /\ Len(compliance_events') = Len(compliance_events) + 1
                    /\ SubSeq(compliance_events', 1, Len(compliance_events))
                          = compliance_events
                    /\ compliance_events'[Len(compliance_events')].severity = "WARNING"
                    /\ compliance_events'[Len(compliance_events')].remediation_status
                          = "PENDING"
              /\ ~m.threshold_exceeded => compliance_events' = compliance_events]_vars

\* 6 protected samples of 0.5 against 6 reference samples of 0.9: the ratio
\* is below 0.8 and one event exists
C24_Witness ==
    /\ ret.op = "calculate_disparate_impact"
    /\ ret.ret # << >>
    /\ ret.ret[1].observed_rate = [num |-> 300, den |-> 600]
    /\ ret.ret[1].baseline_rate = [num |-> 540, den |-> 600]
    /\ ret.ret[1].threshold_exceeded
    /\ Len(compliance_events) = 1
    /\ compliance_events[1].severity = "WARNING"
    /\ compliance_events[1].remediation_status = "PENDING"

(* ========================= workflow coordination ======================= *)

\* a step counts as required unless it says required = false
MarkedRequired(step) == step.required # <<FALSE>>

\* step i of the call reaches its domain agent
ReachesAgent(step) ==
    /\ step.agent \in DOMAIN registered_agents
    /\ registered_agents[step.agent]

ExecutesActionOf(rid) ==
    /\ Len(execs') = Len(execs) + 1
    /\ execs'[Len(execs')].action_id = pending_approvals[rid].action_id
    /\ execs'[Len(execs')].handler

\* C26: once an approval request has received a rejection, no
\* process_approval call leads to _execute_action for its action: its
\* handler is never invoked.
C26_RejectedNeverExecuted ==
    [][\A rid \in 1..Len(pending_approvals) :
          pending_approvals[rid].rejected_by # None => ~ExecutesActionOf(rid)]_vars

\* the handler invocations made by process_approval for one action
ApprovalExecutions(action_id) ==
    {i \in 1..Len(execs) : /\ execs[i].via = "process_approval"
                           /\ execs[i].action_id = action_id
                           /\ execs[i].handler}

\* C27: over the process_approval calls on one request the action's handler
\* is dispatched at most once; calls on the already approved request do not
\* execute it again.
C27_ExecutedAtMostOnce ==
    \A rid \in 1..Len(pending_approvals) :
       Cardinality(ApprovalExecutions(pending_approvals[rid].action_id)) <= 1

(* ========================= process_action pipeline ===================== *)

\* the process_action call of this step was let through by both access
\* checks and its action's confidence is below the threshold
EscalatingCall ==
    /\ IsProcessActionStep
    /\ ret'.status # "REJECTED"
    /\ ret'.confidence_score < ConfidenceThresholdDefault

\* the store gained exactly one record, for the action of this step
OneMoreFor(before, after) ==
    /\ Len(after) = Len(before) + 1
    /\ SubSeq(after, 1, Len(before)) = before
    /\ after[Len(after)].action_id = ret'.action_id

\* C28: when the fallback evaluation escalates, process_action triggers one
\* escalation, writes one EscalationLog and one audit entry for the action,
\* answers success = false with escalation_required = true, and does not
\* evaluate the gate: no approval request, no hook, no handler.
C28_EscalationBranch ==
    [][EscalatingCall =>
          /\ OneMoreFor(escalations, escalations')
          /\ OneMoreFor(escalation_logs, escalation_logs')
          /\ Len(audit_logs') = Len(audit_logs) + 1
          /\ audit_logs'[Len(audit_logs')].action_id = ret'.action_id
          /\ ~ret'.success
          /\ ret'.escalation_required
          /\ pending_approvals' = pending_approvals
          /\ execs' = execs
          /\ events' = events]_vars

\* an escalated action of a type that has a handler, with hooks registered
C28_Witness ==
    /\ ret.op = "process_action"
    /\ ret.escalation_required
    /\ ret.confidence_score < ConfidenceThresholdDefault
    /\ <<ret.agent_type, ret.action_type>> \in handlers
    /\ Len(pre_execution_hooks) > 0 /\ Len(post_execution_hooks) > 0
    /\ Len(escalations) = 1 /\ Len(escalation_logs) = 1 /\ Len(audit_logs) = 1
    /\ events = << >>

\* C29: for an action that passes the gate process_action calls every
\* pre-execution hook in registration order, then the handler, then every
\* post-execution hook in registration order, then updates the audit
\* outcome; a raising hook stops none of these and does not change the
\* response's success value.
C29_HooksAroundHandler ==
    [][(IsProcessActionStep /\ ret'.status \in {"COMPLETED", "FAILED"}) =>
          LET new   == SubSeq(events', Len(events) + 1, Len(events'))
              npre  == Len(pre_execution_hooks)
              npost == Len(post_execution_hooks)
          IN  /\ Len(new) = npre + npost + 2
              /\ \A i \in 1..npre :
                    /\ new[i].call = "pre_hook" /\ new[i].hook = i
                    /\ new[i].raised <=> pre_execution_hooks[i] = "raise"
              /\ new[npre + 1].call = "execute_action"
              /\ \A i \in 1..npost :
                    /\ new[npre + 1 + i].call = "post_hook" /\ new[npre + 1 + i].hook = i
                    /\ new[npre + 1 + i].raised <=> post_execution_hooks[i] = "raise"
              /\ new[npre + npost + 2].call = "update_log_outcome"
              /\ Len(execs') = Len(execs) + 1
              /\ ret'.success = execs'[Len(execs')].success
              /\ audit_logs'[Len(audit_logs')].status = ret'.status
              /\ ret'.success <=> ret'.status = "COMPLETED"]_vars

\* a successful call whose first pre-execution hook and first
\* post-execution hook raised, with a second hook after each
C29_Witness ==
    /\ ret.op = "process_action"
    /\ ret.success /\ ret.status = "COMPLETED"
    /\ pre_execution_hooks = <<"raise", "ok">>
    /\ post_execution_hooks = <<"raise", "ok">>
    /\ Len(events) = 6
    /\ events[1].raised /\ events[2].call = "pre_hook"
    /\ events[3].call = "execute_action"
    /\ events[4].raised /\ events[5].call = "post_hook"
    /\ events[6].call = "update_log_outcome"
    /\ execs[1].handler

(* ============================ rule management ========================== *)

\* the enabled rules of a risk level
EnabledRulesFor(level) ==
    {i \in 1..Len(rules) : rules[i].risk_level = level /\ rules[i].enabled}

\* C30: after any add_rule and update_rule calls each of the four risk
\* levels has exactly one enabled rule, and the rule lookup for a level
\* returns that rule.
C30_OneEnabledRulePerLevel ==
    \A level \in Levels :
       /\ Cardinality(EnabledRulesFor(level)) = 1
       /\ GetRuleForRiskLevel(rules, level).risk_level = level
       /\ GetRuleForRiskLevel(rules, level).enabled

(* ===================== risk level of a submitted action ================ *)

\* C31 as stated: every audit entry and every approval request carries the
\* risk level classify_risk gives the action type, whatever level the caller
\* put on the action.
C31_RiskLevelAlwaysClassified ==
    /\ \A i \in 1..Len(audit_logs) :
          audit_logs[i].risk_level = ClassifyRisk(audit_logs[i].action_type)
    /\ \A rid \in 1..Len(pending_approvals) :
          pending_approvals[rid].risk_level
             = ClassifyRisk(pending_approvals[rid].action_type)

\* C31: for a process_action call that passes the permission and the
\* patient-access check, the risk level on the response, on the audit entry
\* and on the approval request is classify_risk of the action type, and the
\* gate decides by that level: a HIGH or CRITICAL type is never executed,
\* and a request asks for the approvers of that level's rule.
C31_ClassifiedOncePermitted ==
    [][(IsProcessActionStep /\ ret'.status # "REJECTED") =>
          LET level == ClassifyRisk(ret'.action_type)
          IN  /\ ret'.risk_level = level
              /\ Len(audit_logs') = Len(audit_logs) + 1
              /\ audit_logs'[Len(audit_logs')].risk_level = level
              /\ level \in {"HIGH", "CRITICAL"} => execs' = execs
              /\ \A rid \in (Len(pending_approvals) + 1)..Len(pending_approvals') :
                    /\ pending_approvals'[rid].risk_level = level
                    /\ pending_approvals'[rid].required_approvers
                          = GetRuleForRiskLevel(rules, level).required_approvers]_vars

\* a HIGH action type, submitted as LOW or CRITICAL, waits for approval as HIGH
C31_Witness ==
    /\ ret.op = "process_action"
    /\ ret.action_type = "medication_change"
    /\ ret.status = "AWAITING_APPROVAL"
    /\ ret.risk_level = "HIGH"
    /\ Len(pending_approvals) = 1 /\ pending_approvals[1].risk_level = "HIGH"
    /\ Len(audit_logs) = 1 /\ audit_logs[1].risk_level = "HIGH"

(* ============== audit entry of an action executed on approval ========== *)

\* C32: once process_approval has executed the action of a fully approved
\* request, the audit entry written for that action shows COMPLETED or
\* FAILED, no longer AWAITING_APPROVAL, and it is still the only entry of
\* that action.
C32_AuditUpdatedAfterApproval ==
    (ExecutedByApproval /\ ApprovalExecutions(ret.action_id) # {}) =>
        /\ Cardinality({i \in 1..Len(audit_logs) :
                           audit_logs[i].action_id = ret.action_id}) = 1
        /\ \A i \in 1..Len(audit_logs) :
              audit_logs[i].action_id = ret.action_id
                 => audit_logs[i].status \in {"COMPLETED", "FAILED"}

(* ========================= append-only audit trail ===================== *)

\* the fields of an audit entry that log_action fixes
SameIdentity(e, f) ==
    /\ e.log_id = f.log_id /\ e.action_id = f.action_id
    /\ e.agent_type = f.agent_type /\ e.action_type = f.action_type
    /\ e.patient_id = f.patient_id /\ e.confidence_score = f.confidence_score
    /\ e.risk_level = f.risk_level /\ e.user_id = f.user_id
    /\ e.session_id = f.session_id

\* C33: the three stores only grow; an audit entry's id, agent type, action
\* type, patient, confidence, risk level, user and session never change;
\* update_log_outcome changes only outcome and status, record_human_override
\* only the override fields; an access log is never changed and an
\* escalation log is never removed.
C33_AppendOnly ==
    [][/\ Len(audit_logs') >= Len(audit_logs)
       /\ Len(access_logs') >= Len(access_logs)
       /\ Len(escalation_logs') >= Len(escalation_logs)
       /\ \A i \in 1..Len(audit_logs) : SameIdentity(audit_logs[i], audit_logs'[i])
       /\ \A i \in 1..Len(access_logs) : access_logs'[i] = access_logs[i]
       /\ \A i \in 1..Len(escalation_logs) :
             escalation_logs'[i].escalation_id = escalation_logs[i].escalation_id
       /\ ret'.op = "update_log_outcome" =>
             /\ Len(audit_logs') = Len(audit_logs)
             /\ \A i \in 1..Len(audit_logs) :
                   audit_logs'[i] = [audit_logs[i] EXCEPT
                                        !.outcome = audit_logs'[i].outcome,
                                        !.status = audit_logs'[i].status]
       /\ ret'.op = "record_human_override" =>
             /\ Len(audit_logs') = Len(audit_logs)
             /\ \A i \in 1..Len(audit_logs) :
                   audit_logs'[i] = [audit_logs[i] EXCEPT
                                        !.human_override = audit_logs'[i].human_override,
                                        !.override_by = audit_logs'[i].override_by]]_vars

\* an entry that was updated and overridden, beside a second entry, an
\* access log and a resolved escalation
C33_Witness ==
    /\ Len(audit_logs) = 2
    /\ audit_logs[1].status = "COMPLETED" /\ audit_logs[1].human_override
    /\ audit_logs[2].status # "COMPLETED"
    /\ Len(access_logs) = 1
    /\ Len(escalation_logs) >= 1 /\ escalation_logs[1].resolved

(* ===================== compliance event lifecycle ====================== *)

\* how far along PENDING -> IN_PROGRESS -> RESOLVED a status is
RemediationRank(status) ==
    CASE status = "PENDING" -> 1
      [] status = "IN_PROGRESS" -> 2
      [] status = "RESOLVED" -> 3
      [] OTHER -> 0

\* C34: under update_compliance_event a compliance event's remediation status
\* is always PENDING, IN_PROGRESS or RESOLVED and only moves forward (a
\* RESOLVED event never returns to PENDING or IN_PROGRESS); an unknown event
\* id returns false and creates no event.
C34_RemediationMovesForward ==
    [][ret'.op = "update_compliance_event" =>
          /\ Len(compliance_events') = Len(compliance_events)
          /\ ~Found(compliance_events, ret'.event_id)
                => ~ret'.ret /\ compliance_events' = compliance_events
          /\ \A i \in 1..Len(compliance_events) :
                /\ RemediationRank(compliance_events'[i].remediation_status) > 0
                /\ RemediationRank(compliance_events'[i].remediation_status)
                      >= RemediationRank(compliance_events[i].remediation_status)]_vars

(* ========================= full bias analysis ========================== *)

\* the agents a run_full_bias_analysis call has analysed
AnalysedAgents == IF ret.agent_type = None THEN BiasAgents ELSE {ret.agent_type}

\* group p's mean outcome lies below the threshold times group r's mean, on
\* enough samples for calculate_disparate_impact to judge the pair
Disadvantaged(agent, action, p, r) ==
    LET records == action_records[BiasKey(agent, action)]
        outcomes == GroupOutcomes(records, BiasDimension, p, r)
    IN  /\ SufficientSamples(records, outcomes)
        /\ SumSeq(outcomes.protected) * Len(outcomes.reference) * 100
              < DisparateImpactThresholdDefault
                   * SumSeq(outcomes.reference) * Len(outcomes.protected)

\* C35: the result of run_full_bias_analysis lists in violations exactly its
\* analyses with threshold_exceeded, total_violations is their number, and
\* for every key and every two distinct groups, in either role, of which the
\* first is disadvantaged against the second, an analysis of that pair with
\* threshold_exceeded is among them.
C35_EveryPairBothRoles ==
    ret.op = "run_full_bias_analysis" =>
        LET res == ret.ret
            exceeded == {i \in 1..Len(res.analyses) : res.analyses[i].threshold_exceeded}
        IN  /\ Len(res.violations) = Cardinality(exceeded)
            /\ res.total_violations = Len(res.violations)
            /\ res.total_analyses = Len(res.analyses)
            /\ \A a \in AnalysedAgents, t \in BiasActions, p \in BiasGroups,
                  r \in BiasGroups :
                  (p # r /\ Disadvantaged(a, t, p, r))
                     => \E i \in exceeded :
                           /\ res.analyses[i].agent = a
                           /\ res.analyses[i].action = t
                           /\ res.analyses[i].dimension = BiasDimension
                           /\ res.analyses[i].protected_group = p
                           /\ res.analyses[i].reference_group = r

(* ===================== permission-override lists ======================= *)

OverrideGranters == {"SYSTEM_ADMIN", "CLINICAL_DIRECTOR"}

\* the caller of the last override call is a registered user of a granting role
ByGranter == ret'.by \in DOMAIN users /\ users[ret'.by].role \in OverrideGranters

\* C36: a user's override list changes only in a grant_permission_override
\* or revoke_permission_override call made by a registered SYSTEM_ADMIN or
\* CLINICAL_DIRECTOR; a grant by anyone else returns false and changes
\* nothing, and no action is ever twice in a list.
C36_OverridesChangedByGrantersOnly ==
    [][/\ \A u \in DOMAIN users :
             (u \in DOMAIN users'
                /\ users'[u].permissions_override # users[u].permissions_override)
                => /\ ret'.op \in {"grant_permission_override",
                                   "revoke_permission_override"}
                   /\ ret'.user_id = u
                   /\ ByGranter
       /\ (ret'.op = "grant_permission_override" /\ ~ByGranter)
             => ~ret'.ret /\ users' = users
       /\ \A u \in DOMAIN users' :
             \A i, j \in 1..Len(users'[u].permissions_override) :
                users'[u].permissions_override[i] = users'[u].permissions_override[j]
                   => i = j]_vars

(* =========================== human override ============================ *)

\* the audit entries of the action with the id text action_id
EntriesOf(action_id) ==
    {i \in 1..Len(audit_logs) : UuidText(audit_logs[i].action_id) = action_id}

\* C37: human_override with the id of a logged action returns true and sets
\* the override flag and override_by on the entry of that action and on no
\* other; with an id that was never logged it returns false and changes no
\* entry.
C37_OverrideFindsTheAction ==
    [][ret'.op = "human_override" =>
          /\ Len(audit_logs') = Len(audit_logs)
          /\ EntriesOf(ret'.action_id) # {} =>
                /\ ret'.ret
                /\ \A i \in 1..Len(audit_logs) :
                      IF i \in EntriesOf(ret'.action_id)
                      THEN /\ audit_logs'[i].human_override
                           /\ audit_logs'[i].override_by = ret'.override_by
                      ELSE audit_logs'[i] = audit_logs[i]
          /\ EntriesOf(ret'.action_id) = {} =>
                ~ret'.ret /\ audit_logs' = audit_logs]_vars

(* ===================== workflows after process returns ================= *)

\* C38: once process has returned from a coordinate_workflow call, every
\* workflow record has status COMPLETED or FAILED, whatever its steps
\* did, a raising agent included: none stays IN_PROGRESS.
C38_NoWorkflowLeftInProgress ==
    \A w \in 1..Len(workflow_states) :
       workflow_states[w].status \in {"COMPLETED", "FAILED"}

(* ====================== what reject_action reports ===================== *)

\* C39: reject_action reports success only when the named request exists,
\* the rejector is authorized to decide it and the request has become
\* REJECTED; for an unknown request or an unauthorized rejector it reports
\* failure.
C39_RejectReportsWhatHappened ==
    [][ret'.op = "reject_action" =>
          (ret'.success <=>
              /\ ret'.request_id \in 1..Len(pending_approvals)
              /\ CheckApproverPermission(EngineState, ret'.rejected_by,
                                         ret'.request_id).allowed
              /\ pending_approvals'[ret'.request_id].status = "REJECTED")]_vars

====
